---- MODULE Spec2Model ----
(***************************************************************************)
(* A model of pyOptSparse's Optimization class                             *)
(* (src/pyOptSparse/pyOpt_optimization.py): the registry of design         *)
(* variables and constraints, the consistency protocol _reduceDict that    *)
(* merges the registries of the processes of an MPI communicator, the two  *)
(* finalization steps, the x-vector codec, getDVs and setDVs, and the      *)
(* assembly of the constraint values, of the constraint Jacobian and of    *)
(* the objective gradient an optimizer gets.                               *)
(*                                                                         *)
(* Python semantics the model rests on.  The module runs on Python 2.6 and *)
(* later (lines 27-33 fall back to the ordereddict package).  An           *)
(* OrderedDict iterates in insertion order, d[k] = v keeps the position of *)
(* an existing key and appends a new one, and pickling (bcast, send)       *)
(* preserves the order.  An ordered dictionary is therefore a sequence of  *)
(* records [k |-> key, v |-> value] with distinct keys.  Two things depend *)
(* on the interpreter and are kept as choices made in the initial state.   *)
(* The iteration order of a plain dict (procKeys, line 345) is insertion   *)
(* order from Python 3.7 on and arbitrary before, where it may differ from *)
(* one process to the next (variable dictOrdered).  Deleting the key an    *)
(* iteration over an OrderedDict stands on goes on with the next key in the*)
(* pure-Python OrderedDict and raises RuntimeError at the next step in the *)
(* C one, unless the deleted key was the last (variable                    *)
(* iterMutationRaises).                                                    *)
(***************************************************************************)
EXTENDS Integers, Sequences, FiniteSets, TLC

\* ------------------------------------------------------------------ bounds
NProcs == 3             \* size of the communicator in the protocol model
MaxKeysPerProc == 2     \* keys a process holds when it enters _reduceDict

Root == 0
Procs == 0..(NProcs - 1)
DictKeys == {"a", "b"}
\* A collective's slot: nothing contributed yet, or the value contributed.
NotPosted == [posted |-> FALSE, val |-> << >>]
Posted(x) == [posted |-> TRUE, val |-> x]

\* ------------------------------------------------- ordered dictionaries
DKeys(d) == [i \in 1..Len(d) |-> d[i].k]
DKeySet(d) == {d[i].k : i \in 1..Len(d)}
DHas(d, key) == key \in DKeySet(d)
DGet(d, key) == (CHOOSE i \in 1..Len(d) : d[i].k = key)
DVal(d, key) == d[DGet(d, key)].v
DPut(d, key, val) ==
    IF DHas(d, key)
    THEN [i \in 1..Len(d) |-> IF d[i].k = key THEN [k |-> key, v |-> val] ELSE d[i]]
    ELSE Append(d, [k |-> key, v |-> val])
DPop(d, key) == SelectSeq(d, LAMBDA e : e.k # key)

SeqsUpTo(S, n) == UNION {[1..m -> S] : m \in 0..n}
Distinct(s) == \A i, j \in 1..Len(s) : i # j => s[i] # s[j]
KeyLists == {s \in SeqsUpTo(DictKeys, MaxKeysPerProc) : Distinct(s)}

VARIABLES
    rpc,        \* position of each process inside _reduceDict
    rvars,      \* the parameter `variables` of each process
    rinit,      \* the collection each process entered with
    gathered,   \* what comm.gather has collected at the root so far
    procKeys,   \* the local `procKeys` of each process
    bc1,        \* the procKeys the root broadcast in step 3
    bc2,        \* the collection the root broadcast in step 5
    chan,       \* chan[p]: entries sent by p with tag 0, not yet received
    idx,        \* position of each process's `for key in procKeys` loop
    sent,       \* every send of step 4 so far: <<source, key>>
    eager,      \* TRUE: a send returns at once; FALSE: when it is received
    dictOrdered,  \* TRUE: a plain dict iterates in insertion order
    opt,        \* the Optimization object of this process: a record of its fields
    rank,       \* comm.rank of this process
    peers,      \* the `variables` and `constraints` of the other processes, as
                \* far as the collective calls have involved them
    calls,      \* number of calls made on opt
    lastCall,   \* the latest call on opt: its method and the error it raised
    iterMutationRaises,  \* TRUE: deleting the key an iteration stands on raises
    codec,      \* the latest processX / deProcessX call: argument and result
    asm         \* the latest processConstraintJacobian / processNonlinearConstraints
                \* call: arguments and result; the arguments of an addConGroup
                \* call whose wrt is looked at

reduceVars == <<rpc, rvars, rinit, gathered, procKeys, bc1, bc2, chan, idx, sent, eager, dictOrdered>>
regVars == <<opt, rank, peers, calls, lastCall, iterMutationRaises, codec, asm>>
vars == <<reduceVars, regVars>>

\* The entry a process declared under a key.  It records who declared it, so
\* that entries of different processes under one key differ.
Entry(p, key) == [key |-> key, by |-> p]
LocalDict(p, keys) == [i \in 1..Len(keys) |-> [k |-> keys[i], v |-> Entry(p, keys[i])]]

\* Step 2, lines 353-356: loop over the processes in rank order and over each
\* one's keys; a key not yet in procKeys is added with that process's rank.
RECURSIVE AddKeys(_, _, _)
AddKeys(pk, keys, iProc) ==
    IF keys = << >> THEN pk
    ELSE AddKeys(IF DHas(pk, Head(keys)) THEN pk ELSE DPut(pk, Head(keys), iProc),
                 Tail(keys), iProc)

\* allKeys is the list gather returns: allKeys[iProc + 1] holds rank iProc's keys.
RECURSIVE OwnerLoop(_, _, _)
OwnerLoop(pk, allKeys, iProc) ==
    IF iProc >= Len(allKeys) THEN pk
    ELSE OwnerLoop(AddKeys(pk, allKeys[iProc + 1], iProc), allKeys, iProc + 1)

PopRootKeys_KeepAll(pk) == pk
\* Lines 360-362: pop the keys whose owner is the root.
PopRootKeys(pk) == SelectSeq(pk, LAMBDA e : e.v # Root)

ComputeProcKeys(allKeys) == PopRootKeys(OwnerLoop(<< >>, allKeys, 0))

\* The orders in which a process may iterate over its procKeys, a plain dict
\* (line 345) built with the items d: the order of d itself when a dict keeps
\* insertion order, any order otherwise.
Perms(d) == {t \in [1..Len(d) -> {d[i] : i \in 1..Len(d)}] : Distinct(t)}
IterationOrders(d, ordered) == IF ordered THEN {d} ELSE Perms(d)

\* Step 1, line 342, on a process other than the root: its key list goes to
\* the root.
GatherSend(p) ==
    /\ p # Root
    /\ rpc[p] = "gather"
    /\ gathered' = [gathered EXCEPT ![p] = Posted(DKeys(rvars[p]))]
    /\ rpc' = [rpc EXCEPT ![p] = "bcast1"]
    /\ UNCHANGED <<rvars, rinit, procKeys, bc1, bc2, chan, idx, sent, eager, dictOrdered>>
    /\ UNCHANGED regVars

\* Steps 1 and 2 on the root: gather returns once every process has
\* contributed; the root then computes procKeys.
GatherRoot ==
    /\ rpc[Root] = "gather"
    /\ \A p \in Procs \ {Root} : gathered[p].posted
    /\ LET allKeys == [i \in 1..NProcs |-> IF i - 1 = Root THEN DKeys(rvars[Root])
                                                      ELSE gathered[i - 1].val]
       IN  /\ gathered' = [gathered EXCEPT ![Root] = Posted(DKeys(rvars[Root]))]
           /\ \E pk \in IterationOrders(ComputeProcKeys(allKeys), dictOrdered) :
                 procKeys' = [procKeys EXCEPT ![Root] = pk]
    /\ rpc' = [rpc EXCEPT ![Root] = "bcast1"]
    /\ UNCHANGED <<rvars, rinit, bc1, bc2, chan, idx, sent, eager, dictOrdered>>
    /\ UNCHANGED regVars

\* Step 3, line 365.
Bcast1Root ==
    /\ rpc[Root] = "bcast1"
    /\ bc1' = Posted(procKeys[Root])
    /\ rpc' = [rpc EXCEPT ![Root] = "p2p"]
    /\ idx' = [idx EXCEPT ![Root] = 1]
    /\ UNCHANGED <<rvars, rinit, gathered, procKeys, bc2, chan, sent, eager, dictOrdered>>
    /\ UNCHANGED regVars

Bcast1Recv(p) ==
    /\ p # Root
    /\ rpc[p] = "bcast1"
    /\ bc1.posted
    /\ \E pk \in IterationOrders(bc1.val, dictOrdered) :
          procKeys' = [procKeys EXCEPT ![p] = pk]
    /\ rpc' = [rpc EXCEPT ![p] = "p2p"]
    /\ idx' = [idx EXCEPT ![p] = 1]
    /\ UNCHANGED <<rvars, rinit, gathered, bc1, bc2, chan, sent, eager, dictOrdered>>
    /\ UNCHANGED regVars

\* Step 4 on the root, lines 369-370: for each key of procKeys, in order, a
\* blocking receive from that key's owner; messages of one source arrive in
\* the order they were sent.
RecvSource(pk, i) == pk[i].v
RootRecv ==
    /\ rpc[Root] = "p2p"
    /\ idx[Root] <= Len(procKeys[Root])
    /\ LET key == procKeys[Root][idx[Root]].k
           src == RecvSource(procKeys[Root], idx[Root])
       IN  /\ chan[src] # << >>
           /\ rvars' = [rvars EXCEPT ![Root] = DPut(@, key, Head(chan[src]))]
           /\ chan' = [chan EXCEPT ![src] = Tail(@)]
    /\ idx' = [idx EXCEPT ![Root] = @ + 1]
    /\ UNCHANGED <<rpc, rinit, gathered, procKeys, bc1, bc2, sent, eager, dictOrdered>>
    /\ UNCHANGED regVars

\* Step 4 on the other processes, lines 372-374: a key is sent by the process
\* that procKeys names as its owner.
MustSend(p, pk, i) == pk[i].v = p
LoopStep(p) ==
    /\ p # Root
    /\ rpc[p] = "p2p"
    /\ idx[p] <= Len(procKeys[p])
    /\ IF MustSend(p, procKeys[p], idx[p])
       THEN LET key == procKeys[p][idx[p]].k
            IN  /\ chan' = [chan EXCEPT ![p] = Append(@, DVal(rvars[p], key))]
                /\ sent' = Append(sent, <<p, key>>)
                /\ rpc' = [rpc EXCEPT ![p] = "sending"]
                /\ idx' = idx
       ELSE /\ idx' = [idx EXCEPT ![p] = @ + 1]
            /\ UNCHANGED <<chan, sent, rpc>>
    /\ UNCHANGED <<rvars, rinit, gathered, procKeys, bc1, bc2, eager, dictOrdered>>
    /\ UNCHANGED regVars

\* comm.send returns: at once when the message is buffered, otherwise when
\* the root has received it.
SendReturns(p) ==
    /\ p # Root
    /\ rpc[p] = "sending"
    /\ eager \/ chan[p] = << >>
    /\ rpc' = [rpc EXCEPT ![p] = "p2p"]
    /\ idx' = [idx EXCEPT ![p] = @ + 1]
    /\ UNCHANGED <<rvars, rinit, gathered, procKeys, bc1, bc2, chan, sent, eager, dictOrdered>>
    /\ UNCHANGED regVars

LoopEnd(p) ==
    /\ rpc[p] = "p2p"
    /\ idx[p] > Len(procKeys[p])
    /\ rpc' = [rpc EXCEPT ![p] = "bcast2"]
    /\ UNCHANGED <<rvars, rinit, gathered, procKeys, bc1, bc2, chan, idx, sent, eager, dictOrdered>>
    /\ UNCHANGED regVars

\* Step 5, line 377, and the return of line 379.
Bcast2Root ==
    /\ rpc[Root] = "bcast2"
    /\ bc2' = Posted(rvars[Root])
    /\ rpc' = [rpc EXCEPT ![Root] = "done"]
    /\ UNCHANGED <<rvars, rinit, gathered, procKeys, bc1, chan, idx, sent, eager, dictOrdered>>
    /\ UNCHANGED regVars

Bcast2Value_Own(p) == rvars[p]
Bcast2Value(p) == bc2.val
Bcast2Recv(p) ==
    /\ p # Root
    /\ rpc[p] = "bcast2"
    /\ bc2.posted
    /\ rvars' = [rvars EXCEPT ![p] = Bcast2Value(p)]
    /\ rpc' = [rpc EXCEPT ![p] = "done"]
    /\ UNCHANGED <<rinit, gathered, procKeys, bc1, bc2, chan, idx, sent, eager, dictOrdered>>
    /\ UNCHANGED regVars


\* The collections _reduceDict can return, as a function of the collections
\* the processes entered with (colls[iProc + 1] is rank iProc's).  The root
\* iterates procKeys in rootOrder and process p in sendOrders[p + 1]; the
\* i-th receive of the root takes the next message of the owner of its i-th
\* key, and the messages of an owner are the entries of the keys it owns in
\* the order of its own iteration.
SentKeys(order, p) == SelectSeq(order, LAMBDA e : e.v = p)
Received(rootOrder, sendOrders, i, colls) ==
    LET p == rootOrder[i].v
        j == Cardinality({m \in 1..i : rootOrder[m].v = p})
    IN  DVal(colls[p + 1], SentKeys(sendOrders[p + 1], p)[j].k)

RECURSIVE FoldReceived(_, _, _, _, _)
FoldReceived(d, rootOrder, sendOrders, i, colls) ==
    IF i > Len(rootOrder) THEN d
    ELSE FoldReceived(DPut(d, rootOrder[i].k, Received(rootOrder, sendOrders, i, colls)),
                      rootOrder, sendOrders, i + 1, colls)

ReduceDict(colls, ordered) ==
    LET pk == ComputeProcKeys([i \in 1..Len(colls) |-> DKeys(colls[i])])
    IN  {FoldReceived(colls[Root + 1], rootOrder, sendOrders, 1, colls) :
            rootOrder \in IterationOrders(pk, ordered),
            sendOrders \in [1..Len(colls) -> IterationOrders(pk, ordered)]}

\* ===================================================================
\* The registry of one process
\* ===================================================================
NPeers == 1             \* other processes of the communicator
MaxVars == 2            \* nVars of a variable group
MaxNCon == 2            \* nCon of a constraint group
MaxPeerVarCalls == 1    \* addVarSet/addVarGroup calls a peer made before finalizing
MaxPeerConCalls == 1    \* addConGroup calls a peer made before finalizeConstraints
MaxXVal == 2            \* entries of a flat x vector are drawn from 1..MaxXVal
MaxCodecLen == 4        \* ndvs of a registry the codec starts from

NoneVal == -1           \* Python's None in an integer field
NoneName == "<None>"    \* Python's None where a name is expected
SetNames == {"s"}
GroupNames == {"a", "n"}
ConNames == {"c", "d", "e"}
UnknownName == "zz"
VarTypes == {"c", "i", "d"}
TypeInputs == {"c", "x"}
VarValues == {0}
VarScales == {1}
RegRanks == 0..NPeers

Min(a, b) == IF a < b THEN a ELSE b

\* __init__, lines 79-116.  The scale arrays, None until finalizeConstraints
\* builds them, are empty sequences here; linearJacobian is None.
NewOpt ==
    [variables |-> << >>, constraints |-> << >>, dvOffset |-> << >>,
     varSetNames |-> {}, varGroupNames |-> {}, conGroupNames |-> {},
     ableToAddVariables |-> TRUE, denseJacobianOK |-> TRUE,
     ndvs |-> NoneVal, nnCon |-> NoneVal, nlCon |-> NoneVal, nCon |-> NoneVal,
     conScaleNonLinear |-> << >>, conScaleLinear |-> << >>, xscale |-> << >>,
     linearJacobian |-> [err |-> "none", shape |-> <<NoneVal>>, ents |-> << >>],
     dummyConstraint |-> FALSE, objectives |-> << >>, useGroups |-> TRUE]

\* The outcome of a call: the object afterwards and the error raised, if any.
Return(o) == [o |-> o, err |-> "none"]
Raise(o, e) == [o |-> o, err |-> e]

CheckOkToAddVariables_Always(o) == TRUE
\* checkOkToAddVariables, lines 861-868: TRUE when the call may go on.
CheckOkToAddVariables(o) == o.ableToAddVariables

\* addVarSet, lines 118-131.
AddVarSetOp(o, name) ==
    IF ~CheckOkToAddVariables(o) THEN Raise(o, "NoMoreVariables")
    ELSE IF name \in o.varSetNames THEN Raise(o, "DuplicateName")
    ELSE Return([o EXCEPT !.varSetNames = @ \cup {name},
                          !.variables = DPut(@, name, << >>)])

\* A Variable object, as built in lines 295-298.
Variable(value, scale, scalar) == [value |-> value, scale |-> scale, scalar |-> scalar]

\* addVarGroup, lines 217-298 (addVar, line 139, is the call with nVars = 1
\* and scalar = TRUE).  a.bad is "scale" when the scale argument, the last
\* one checked, has a length that is neither 1 nor nVars; the value and the
\* bounds are scalars.
NameTaken(names, name) == name \in names
AddVarGroupOp(o, a) ==
    IF ~CheckOkToAddVariables(o) THEN Raise(o, "NoMoreVariables")
    ELSE IF NameTaken(o.varGroupNames, a.name) THEN Raise(o, "DuplicateName")
    ELSE LET o1 == [o EXCEPT !.varGroupNames = @ \cup {a.name}]
             varSet == IF a.varSet = NoneName THEN a.name ELSE a.varSet
             r2 == IF ~DHas(o1.variables, varSet) THEN AddVarSetOp(o1, varSet)
                                                  ELSE Return(o1)
         IN  IF r2.err # "none" THEN r2
             ELSE IF a.type \notin VarTypes THEN Raise(r2.o, "BadType")
             ELSE IF a.bad # "none" THEN Raise(r2.o, "ShapeMismatch")
             ELSE Return([r2.o EXCEPT !.variables =
                     DPut(@, varSet,
                          DPut(DVal(@, varSet), a.name,
                               [i \in 1..a.nVars |->
                                   Variable(a.value, a.scale, a.scalar)]))])

AddVarGroupArgs ==
    {a \in [name : GroupNames, nVars : 1..MaxVars, type : TypeInputs,
            varSet : SetNames \cup {NoneName}, scalar : BOOLEAN,
            bad : {"none", "scale"}, value : VarValues, scale : VarScales] :
        a.scalar => a.nVars = 1}

\* delVar, lines 300-317: the inner loop pops the group while iterating over
\* its set.
RECURSIVE DelVarLoop(_, _, _, _)
DelVarLoop(variables, i, name, raises) ==
    IF i > Len(variables) THEN [variables |-> variables, err |-> "none"]
    ELSE LET groups == variables[i].v
         IN  IF DHas(groups, name)
             THEN LET popped == [variables EXCEPT ![i].v = DPop(groups, name)]
                  IN  IF raises /\ DGet(groups, name) < Len(groups)
                      THEN [variables |-> popped, err |-> "RuntimeError"]
                      ELSE DelVarLoop(popped, i + 1, name, raises)
             ELSE DelVarLoop(variables, i + 1, name, raises)

DelVarOp(o, name, raises) ==
    LET r == DelVarLoop(o.variables, 1, name, raises)
    IN  [o |-> [o EXCEPT !.variables = r.variables], err |-> r.err]

\* delVarSet, lines 319-330.
DelVarSetOp(o, name) ==
    IF ~DHas(o.variables, name) THEN Raise(o, "AssertionError")
    ELSE Return([o EXCEPT !.variables = DPop(@, name)])

\* finalizeDesignVariables, lines 403-408: the groups of one variable set.
\* off is dvOffset[dvSet], an ordered dictionary whose key 'n' holds the
\* range of the set and whose other keys are the group names.
RECURSIVE GroupLoop(_, _, _, _)
GroupLoop(groups, i, off, dvCounter) ==
    IF i > Len(groups) THEN [off |-> off, dvCounter |-> dvCounter]
    ELSE LET n == Len(groups[i].v)
         IN  GroupLoop(groups, i + 1,
                       DPut(off, groups[i].k,
                            <<dvCounter, dvCounter + n, groups[i].v[1].scalar>>),
                       dvCounter + n)

\* Lines 401-409 for one variable set that has groups.
SetOffsets(groups, dvCounter) ==
    LET r == GroupLoop(groups, 1, DPut(<< >>, "n", <<dvCounter, -1>>), dvCounter)
    IN  [off |-> DPut(r.off, "n", [DVal(r.off, "n") EXCEPT ![2] = r.dvCounter]),
         dvCounter |-> r.dvCounter]

\* Lines 397-412: the loop over self.variables, which pops the sets that have
\* no group while iterating.  keys is the key list the iteration started on.
RECURSIVE OffsetLoop(_, _, _, _, _, _)
OffsetLoop(keys, i, variables, dvOffset, dvCounter, raises) ==
    IF i > Len(keys)
    THEN [variables |-> variables, dvOffset |-> dvOffset,
          dvCounter |-> dvCounter, err |-> "none"]
    ELSE LET dvSet == keys[i]
             groups == DVal(variables, dvSet)
         IN  IF Len(groups) > 0
             THEN LET r == SetOffsets(groups, dvCounter)
                  IN  OffsetLoop(keys, i + 1, variables,
                                 DPut(dvOffset, dvSet, r.off), r.dvCounter, raises)
             ELSE IF raises /\ i < Len(keys)
                  THEN [variables |-> DPop(variables, dvSet), dvOffset |-> dvOffset,
                        dvCounter |-> dvCounter, err |-> "RuntimeError"]
                  ELSE OffsetLoop(keys, i + 1, DPop(variables, dvSet),
                                  dvOffset, dvCounter, raises)

\* finalizeDesignVariables, lines 381-415, on the collection merged that
\* _reduceDict returned in line 395.
FinalizeDesignVariablesOp(o, merged, raises) ==
    LET r == OffsetLoop(DKeys(merged), 1, merged, o.dvOffset, 0, raises)
    IN  IF r.err # "none"
        THEN Raise([o EXCEPT !.variables = r.variables, !.dvOffset = r.dvOffset], r.err)
        ELSE Return([o EXCEPT !.variables = r.variables, !.dvOffset = r.dvOffset,
                              !.ndvs = r.dvCounter, !.ableToAddVariables = FALSE])

\* ---------------------------------------------------------------- matrices
\* A matrix entry is the number n/d, or n/d times the sentinel 1e-50 that
\* stands for a structural zero (tiny): the assembly only multiplies an entry
\* by a constraint scale and divides it by a variable scale, so the entries
\* are kept as reduced fractions and the arithmetic is exact.
RECURSIVE Gcd(_, _)
Gcd(a, b) == IF b = 0 THEN a ELSE Gcd(b, a % b)
Abs(n) == IF n < 0 THEN -n ELSE n
Norm(n, d, tiny) ==
    IF n = 0 THEN [n |-> 0, d |-> 1, tiny |-> FALSE]
    ELSE LET g == Gcd(Abs(n), d) IN [n |-> n \div g, d |-> d \div g, tiny |-> tiny]
Num(n) == Norm(n, 1, FALSE)
Tiny == [n |-> 1, d |-> 1, tiny |-> TRUE]
Times(x, k) == Norm(x.n * k, x.d, x.tiny)
Over(x, k) == Norm(x.n, x.d * k, x.tiny)

\* m[numpy.where(m == 0)] = 1e-50 on one entry of a float array.
ZeroToTiny(v) == IF v = 0 THEN Tiny ELSE Num(v)

\* The cells of an r x c array in row-major order, 0-based.
Cells(r, c) == [k \in 1..(r * c) |-> [i |-> (k - 1) \div c, j |-> (k - 1) % c]]

\* A block as the caller hands it over: a dense array (a sequence of rows of
\* numbers) or a sparse matrix.  A sparse matrix is kept in csr form: its
\* shape and its stored entries [i, j, v] in the order of its data array (row
\* by row); nnz is the number of stored entries, zeros included.
DenseBlock(rows) == [sparse |-> FALSE, rows |-> rows]
Csr(shape, ents) == [sparse |-> TRUE, shape |-> shape, ents |-> ents]
Nnz(m) == Len(m.ents)
Shape(b) ==
    IF b.sparse THEN b.shape
    ELSE <<Len(b.rows), IF Len(b.rows) = 0 THEN 0 ELSE Len(b.rows[1])>>

\* sparse.csr_matrix(numpy.ones((nCon, ndvs))) with data[:] = 0.0, lines
\* 607-608 and 638-639: every cell is stored and holds zero.
Placeholder(nCon, ndvs) ==
    LET cs == Cells(nCon, ndvs)
    IN  Csr(<<nCon, ndvs>>, [k \in 1..Len(cs) |-> [i |-> cs[k].i, j |-> cs[k].j, v |-> Num(0)]])

\* The csr form of a block: a sparse one keeps its stored entries (tocsr); a
\* dense one has its zeros replaced by the sentinel and csr_matrix then
\* stores the entries that are not zero.  Lines 650-660 and 1338-1348.
ToCsr(b) ==
    IF b.sparse THEN b
    ELSE LET sh == Shape(b)
             cs == Cells(sh[1], sh[2])
             all == [k \in 1..Len(cs) |->
                        [i |-> cs[k].i, j |-> cs[k].j,
                         v |-> ZeroToTiny(b.rows[cs[k].i + 1][cs[k].j + 1])]]
         IN  Csr(sh, SelectSeq(all, LAMBDA e : e.v.n # 0))

\* _csrRowScale, lines 1404-1412: the data of row iRow times vec[iRow].
CsrRowScale(mat, vec) ==
    [mat EXCEPT !.ents = [k \in 1..Len(mat.ents) |->
                             [mat.ents[k] EXCEPT !.v = Times(@, vec[mat.ents[k].i + 1])]]]

\* _cooRowScale, lines 1414-1420, on the entries [row, col, v] of a coo matrix.
CooRowScale(ents, vec) ==
    [k \in 1..Len(ents) |-> [ents[k] EXCEPT !.v = Times(@, vec[ents[k].row + 1])]]

\* A Constraint object, as built in lines 679-681; rs and re are assigned by
\* finalizeConstraints.  jac maps each set of wrt to its csr template.
Constraint(name, nCon, linear, wrt, jac, partialReturnOk, scale) ==
    [name |-> name, ncon |-> nCon, linear |-> linear, wrt |-> wrt, jac |-> jac,
     partialReturnOk |-> partialReturnOk, scale |-> scale,
     rs |-> NoneVal, re |-> NoneVal]

\* Lines 581-586: wrt sorted by (start offset of the set, name of the set).
NameOrder == <<"S", "a", "c", "d", "e", "n", "s", "zz">>
NameRank(name) == CHOOSE i \in 1..Len(NameOrder) : NameOrder[i] = name
DvStart(o, dvSet) == DVal(DVal(o.dvOffset, dvSet), "n")[1]
WrtBefore(o, x, y) ==
    \/ DvStart(o, x) < DvStart(o, y)
    \/ DvStart(o, x) = DvStart(o, y) /\ NameRank(x) <= NameRank(y)
RECURSIVE SortWrt(_, _)
SortWrt(o, wrt) ==
    IF wrt = << >> THEN << >>
    ELSE LET i == CHOOSE i \in 1..Len(wrt) : \A j \in 1..Len(wrt) : WrtBefore(o, wrt[i], wrt[j])
         IN  <<wrt[i]>> \o SortWrt(o, [j \in 1..(Len(wrt) - 1) |->
                                          IF j < i THEN wrt[j] ELSE wrt[j + 1]])

\* Line 604: the width of a variable set, ss[1] - ss[0] of dvOffset[dvSet]['n'].
SetWidth(o, dvSet) ==
    LET ss == DVal(DVal(o.dvOffset, dvSet), "n") IN ss[2] - ss[1]

\* str.lower() on the names of the model: "S" is the one with a capital.
Lower(name) == IF name = "S" THEN "s" ELSE name

\* Lines 552-566: the list wrt stands for.  wrt=None is every variable set, a
\* string is the list of its lower-case form, and None entries of a list
\* are dropped.
WrtList(o, w) ==
    IF ~w.given THEN DKeys(o.variables)
    ELSE IF w.str THEN <<Lower(w.names[1])>>
    ELSE SelectSeq(w.names, LAMBDA n : n # NoneName)

\* Lines 593-658: the template of one variable set.  With jac=None, or when
\* the dictionary jac has no entry for the set, it is the placeholder; an
\* entry of jac is converted to csr.
TemplateBlock(o, a, dvSet) ==
    IF a.jac /\ DHas(a.blocks, dvSet) THEN DVal(a.blocks, dvSet)
    ELSE Placeholder(a.nCon, SetWidth(o, dvSet))

\* Lines 534-541: a scale of length 1 is repeated nCon times.
BroadcastScale(scale, nCon) ==
    IF Len(scale) = 1 THEN [i \in 1..nCon |-> scale[1]] ELSE scale

\* Lines 673-676: the rows of every template are scaled when it is stored.
ScaleTemplate(m, scale) == CsrRowScale(m, scale)

VariablesNotFinalized_Never(o) == FALSE
\* The guard of lines 500-503: TRUE when the variables are not finalized yet.
VariablesNotFinalized(o) == o.ableToAddVariables

\* addConGroup, lines 498-681 (addCon, line 429, is the call with nCon = 1).
\* a.wrt is [given |-> FALSE] for wrt=None, else the names, as a string
\* (str) or as a list; a.jac says whether jac was passed and a.blocks is the
\* dictionary then; a.scale is the scale, of length 1 or nCon; a.bad names
\* the first of lower, upper, scale that has a wrong length, is "jac" for a
\* jac that is no dictionary, or is "none".
AddConGroupOp(o, a) ==
    IF VariablesNotFinalized(o) THEN Raise(o, "Ordering")
    ELSE IF NameTaken(o.conGroupNames, a.name) THEN Raise(o, "DuplicateName")
    ELSE LET o1 == [o EXCEPT !.conGroupNames = @ \cup {a.name}]
             wrt0 == WrtList(o1, a.wrt)
             scale == BroadcastScale(a.scale, a.nCon)
         IN  IF a.bad \in {"lower", "upper", "scale"} THEN Raise(o1, "ShapeMismatch")
             ELSE IF \E i \in 1..Len(wrt0) : ~DHas(o1.variables, wrt0[i])
                  THEN Raise(o1, "UnknownVarSet")
             ELSE IF \E i \in 1..Len(wrt0) : ~DHas(o1.dvOffset, wrt0[i])
                  THEN Raise(o1, "KeyError")
             ELSE IF ~a.jac /\ a.linear THEN Raise(o1, "LinearNeedsJac")
             ELSE IF a.jac /\ a.bad = "jac" THEN Raise(o1, "ShapeMismatch")
             ELSE LET wrt == SortWrt(o1, wrt0)
                      blocks == [i \in 1..Len(wrt) |-> TemplateBlock(o1, a, wrt[i])]
                  IN  IF \E i \in 1..Len(wrt) :
                            Shape(blocks[i]) # <<a.nCon, SetWidth(o1, wrt[i])>>
                      THEN Raise(o1, "ShapeMismatch")
                      ELSE Return([o1 EXCEPT !.constraints =
                              DPut(@, a.name,
                                   Constraint(a.name, a.nCon, a.linear, wrt,
                                              [i \in 1..Len(wrt) |->
                                                  [k |-> wrt[i],
                                                   v |-> ScaleTemplate(ToCsr(blocks[i]), scale)]],
                                              ~a.jac, scale))])

WrtInputs(o) ==
    {[given |-> FALSE, str |-> FALSE, names |-> << >>]} \cup
    {[given |-> TRUE, str |-> FALSE, names |-> w] :
        w \in {s \in SeqsUpTo(DKeySet(o.variables) \cup {UnknownName}, 2) : Distinct(s)}}

AddConGroupArgs(o) ==
    [name : ConNames, nCon : 1..MaxNCon, linear : BOOLEAN, wrt : WrtInputs(o),
     jac : BOOLEAN, blocks : {<< >>}, scale : {<<1>>},
     bad : {"none", "lower", "upper", "scale", "jac"}]

\* finalizeConstraints, lines 922-936: rs and re of the constraints whose
\* linear flag is `linear`, in collection order, starting at rowCounter.
RECURSIVE RowLoop(_, _, _, _)
RowLoop(cons, i, linear, rowCounter) ==
    IF i > Len(cons) THEN [cons |-> cons, rowCounter |-> rowCounter]
    ELSE IF cons[i].v.linear = linear
         THEN RowLoop([cons EXCEPT ![i].v.rs = rowCounter,
                                   ![i].v.re = rowCounter + cons[i].v.ncon],
                      i + 1, linear, rowCounter + cons[i].v.ncon)
         ELSE RowLoop(cons, i + 1, linear, rowCounter)

AssignRows_LinearFirst(cons) ==
    LET lin == RowLoop(cons, 1, TRUE, 0)
    IN  RowLoop(lin.cons, 1, FALSE, lin.rowCounter).cons
AssignRows(cons) ==
    LET nonlin == RowLoop(cons, 1, FALSE, 0)
    IN  RowLoop(nonlin.cons, 1, TRUE, nonlin.rowCounter).cons

\* Lines 902-909.
RECURSIVE CountRows(_, _, _)
CountRows(cons, i, linear) ==
    IF i > Len(cons) THEN 0
    ELSE (IF cons[i].v.linear = linear THEN cons[i].v.ncon ELSE 0)
         + CountRows(cons, i + 1, linear)

\* Lines 961-968.
DenseOK(o, cons) ==
    IF \E i \in 1..Len(cons) :
          ~({cons[i].v.wrt[j] : j \in 1..Len(cons[i].v.wrt)} \subseteq DKeySet(o.variables))
    THEN FALSE ELSE o.denseJacobianOK

\* Lines 916-940: the scales of the constraints whose linear flag is
\* `linear`, one entry per row, in collection order.
RECURSIVE ConScale(_, _, _)
ConScale(cons, i, linear) ==
    IF i > Len(cons) THEN << >>
    ELSE (IF cons[i].v.linear = linear THEN cons[i].v.scale ELSE << >>)
         \o ConScale(cons, i + 1, linear)

\* Lines 946-952: the scale of every variable, in the order of self.variables.
RECURSIVE XScale(_, _, _)
XScale(variables, i, j) ==
    IF i > Len(variables) THEN << >>
    ELSE IF j > Len(variables[i].v) THEN XScale(variables, i + 1, 1)
    ELSE [k \in 1..Len(variables[i].v[j].v) |-> variables[i].v[j].v[k].scale]
         \o XScale(variables, i, j + 1)

\* ------------------------------------------------- processConstraintJacobian
\* What the caller hands over: a full array (a sequence of rows of numbers)
\* or a dictionary from constraint names to dictionaries from variable set
\* names to blocks.
DenseForm(rows) == [form |-> "dense", rows |-> rows]
DictForm(cons) == [form |-> "dict", cons |-> cons]

\* The outcome of an assembly call: the matrix returned (shape and entries
\* [row, col, v] in the order of its data) or the error raised.
Matrix(shape, ents) == [err |-> "none", shape |-> shape, ents |-> ents]
Failed(e) == [err |-> e, shape |-> << >>, ents |-> << >>]
\* None where a matrix is expected (self.linearJacobian, line 115).
NoMatrix == [err |-> "none", shape |-> <<NoneVal>>, ents |-> << >>]

\* Lines 1250-1253.
DummyJacobian(o) ==
    Matrix(<<1, o.ndvs>>, [k \in 1..o.ndvs |-> [row |-> 0, col |-> k - 1, v |-> Tiny]])
EmptyArray == Matrix(<<0>>, << >>)

\* Lines 1271-1291: the full array, of the partition's shape, with dense
\* returns allowed: zeros become the sentinel, column i is divided by
\* xscale[i], coo_matrix stores what is not zero and the rows are scaled.
DenseAssemble(o, rows, shp, conScale) ==
    LET cs == Cells(shp[1], shp[2])
        all == [k \in 1..Len(cs) |->
                   [row |-> cs[k].i, col |-> cs[k].j,
                    v |-> Over(ZeroToTiny(rows[cs[k].i + 1][cs[k].j + 1]),
                               o.xscale[cs[k].j + 1])]]
    IN  Matrix(shp, CooRowScale(SelectSeq(all, LAMBDA e : e.v.n # 0), conScale))

\* Lines 1354-1361: a block is taken when its nonzero count equals the
\* template's.
SameSparsity_AtLeast(tmp, template) == Nnz(tmp) >= Nnz(template)
SameSparsity(tmp, template) == Nnz(tmp) = Nnz(template)

\* Lines 1369-1382: the ii-th stored entry of the template gives the row and
\* the column, the ii-th datum of the submitted block the value.
BlockEntries_OwnPositions(o, con, key, tmp) ==
    [ii \in 1..Nnz(tmp) |->
        [row |-> con.rs + tmp.ents[ii].i,
         col |-> DvStart(o, key) + tmp.ents[ii].j,
         v |-> Over(tmp.ents[ii].v, o.xscale[DvStart(o, key) + tmp.ents[ii].j + 1])]]
BlockEntries(o, con, key, tmp) ==
    LET template == DVal(con.jac, key)
    IN  [ii \in 1..Nnz(template) |->
            [row |-> con.rs + template.ents[ii].i,
             col |-> DvStart(o, key) + template.ents[ii].j,
             v |-> Over(tmp.ents[ii].v,
                        o.xscale[DvStart(o, key) + template.ents[ii].j + 1])]]

\* Lines 1335-1352: the block used for a set of wrt, the submitted one in
\* csr form or, when the submission has none, the stored template.
BlockUsed(con, key, blocks) ==
    IF DHas(blocks, key) THEN ToCsr(DVal(blocks, key)) ELSE DVal(con.jac, key)

\* Lines 1330-1382, the loop over con.wrt from position i on.
RECURSIVE WrtLoop(_, _, _, _, _)
WrtLoop(o, con, blocks, i, ents) ==
    IF i > Len(con.wrt) THEN Matrix(<< >>, ents)
    ELSE LET key == con.wrt[i]
             tmp == BlockUsed(con, key, blocks)
         IN  IF tmp.shape # <<con.ncon, SetWidth(o, key)>> THEN Failed("ShapeMismatch")
             ELSE IF ~SameSparsity(tmp, DVal(con.jac, key)) THEN Failed("SparsityViolation")
             ELSE WrtLoop(o, con, blocks, i + 1, ents \o BlockEntries(o, con, key, tmp))

\* Lines 1318-1327: with partialReturnOk false every set of con.jac must
\* have its block.
MissingBlock_Never(con, blocks) == FALSE
MissingBlock(con, blocks) ==
    ~con.partialReturnOk /\ \E i \in 1..Len(con.jac) : ~DHas(blocks, con.jac[i].k)

\* Lines 1305-1382, the loop over self.constraints from position i on.
RECURSIVE ConLoop(_, _, _, _, _)
ConLoop(o, gcon, linearFlag, i, ents) ==
    IF i > Len(o.constraints) THEN Matrix(<< >>, ents)
    ELSE LET iCon == o.constraints[i].k
             con == o.constraints[i].v
         IN  IF con.linear # linearFlag THEN ConLoop(o, gcon, linearFlag, i + 1, ents)
             ELSE IF ~DHas(gcon, con.name) THEN Failed("MissingValue")
             ELSE IF ~DHas(gcon, iCon) THEN Failed("KeyError")
             ELSE IF MissingBlock(con, DVal(gcon, iCon)) THEN Failed("MissingValue")
             ELSE LET r == WrtLoop(o, con, DVal(gcon, iCon), 1, ents)
                  IN  IF r.err # "none" THEN r
                      ELSE ConLoop(o, gcon, linearFlag, i + 1, r.ents)

\* Lines 1246-1253: the early return.
NoConstraints(o, linearFlag) == o.nCon = 0

\* processConstraintJacobian, lines 1217-1402.  Before finalizeConstraints
\* nnCon, nlCon and the row ranges are None and every path ends in an
\* exception.
ProcessConstraintJacobianOp(o, gcon, linearFlag) ==
    IF o.nCon = NoneVal THEN Failed("NotFinalized")
    ELSE IF NoConstraints(o, linearFlag)
    THEN IF o.dummyConstraint THEN DummyJacobian(o) ELSE EmptyArray
    ELSE LET shp == <<IF linearFlag THEN o.nlCon ELSE o.nnCon, o.ndvs>>
             conScale == IF linearFlag THEN o.conScaleLinear ELSE o.conScaleNonLinear
         IN  IF gcon.form = "dense"
             THEN IF Shape(DenseBlock(gcon.rows)) # shp THEN Failed("ShapeMismatch")
                  ELSE IF ~o.denseJacobianOK THEN Failed("DenseReturnForbidden")
                  ELSE DenseAssemble(o, gcon.rows, shp, conScale)
             ELSE LET r == ConLoop(o, gcon.cons, linearFlag, 1, << >>)
                  IN  IF r.err # "none" THEN r
                      ELSE Matrix(shp,
                             CooRowScale([k \in 1..Len(r.ents) |->
                                             [r.ents[k] EXCEPT !.row =
                                                 IF linearFlag THEN @ - o.nnCon ELSE @]],
                                         conScale))

\* ------------------------------------------------------ the caller's arrays
\* The entries of a dense array as the floats it holds; replaced tells that
\* m[numpy.where(m == 0)] = 1e-50 has been applied to the array itself.
HeldRows(rows, replaced) ==
    [r \in 1..Len(rows) |->
        [c \in 1..Len(rows[r]) |->
            IF replaced THEN ZeroToTiny(rows[r][c]) ELSE Num(rows[r][c])]]
HeldBlock(b, replaced) ==
    IF b.sparse THEN b ELSE [b EXCEPT !.rows = HeldRows(@, replaced)]

\* What the caller's argument holds when the zeros of the dense blocks named
\* in replaced (pairs <<constraint, set>>) have been overwritten.
CallerData(gcon, replaced) ==
    IF gcon.form = "dense" THEN DenseForm(HeldRows(gcon.rows, FALSE))
    ELSE DictForm([i \in 1..Len(gcon.cons) |->
            [k |-> gcon.cons[i].k,
             v |-> [j \in 1..Len(gcon.cons[i].v) |->
                      [k |-> gcon.cons[i].v[j].k,
                       v |-> HeldBlock(gcon.cons[i].v[j].v,
                                       <<gcon.cons[i].k, gcon.cons[i].v[j].k>> \in replaced)]]]])

\* Lines 1330-1361: the sets of con.wrt, from position i on, whose submitted
\* block the loop reaches; the loop stops at the first block it rejects.
RECURSIVE WrtReached(_, _, _, _)
WrtReached(o, con, blocks, i) ==
    IF i > Len(con.wrt) THEN {}
    ELSE LET key == con.wrt[i]
             tmp == BlockUsed(con, key, blocks)
             here == IF DHas(blocks, key) THEN {key} ELSE {}
         IN  IF tmp.shape # <<con.ncon, SetWidth(o, key)>> THEN here
             ELSE IF ~SameSparsity(tmp, DVal(con.jac, key)) THEN here
             ELSE here \cup WrtReached(o, con, blocks, i + 1)

\* Lines 1310-1382: the blocks <<constraint, set>> of the submission that the
\* loop over self.constraints reaches from position i on.
RECURSIVE ConReached(_, _, _, _)
ConReached(o, gcon, linearFlag, i) ==
    IF i > Len(o.constraints) THEN {}
    ELSE LET iCon == o.constraints[i].k
             con == o.constraints[i].v
         IN  IF con.linear # linearFlag THEN ConReached(o, gcon, linearFlag, i + 1)
             ELSE IF ~DHas(gcon, con.name) \/ ~DHas(gcon, iCon) THEN {}
             ELSE IF MissingBlock(con, DVal(gcon, iCon)) THEN {}
             ELSE {<<iCon, key>> : key \in WrtReached(o, con, DVal(gcon, iCon), 1)} \cup
                  (IF WrtLoop(o, con, DVal(gcon, iCon), 1, << >>).err # "none" THEN {}
                   ELSE ConReached(o, gcon, linearFlag, i + 1))

\* The caller's argument after processConstraintJacobian(gcon, linearFlag).
\* The full array is copied before anything is written (line 1259).  A dense
\* block of the dictionary goes through numpy.atleast_2d (line 1346), which
\* hands back the caller's own array when that is a two-dimensional ndarray
\* (arrays) and a new array when it is a nested list; the zeros are replaced
\* in what it hands back (line 1347) and the copy is taken afterwards (line
\* 1348).  A sparse block is copied first (line 1342).
GconAfter(o, gcon, linearFlag, arrays) ==
    IF o.nCon = NoneVal \/ NoConstraints(o, linearFlag) \/ gcon.form = "dense" \/ ~arrays
    THEN CallerData(gcon, {})
    ELSE CallerData(gcon, ConReached(o, gcon.cons, linearFlag, 1))

\* Lines 974-983: the linear constraints' stored templates, assembled once.
LinearJacobian(o) ==
    IF o.nlCon > 0
    THEN ProcessConstraintJacobianOp(o,
             DictForm(SelectSeq([i \in 1..Len(o.constraints) |->
                                    [k |-> o.constraints[i].k, v |-> o.constraints[i].v.jac]],
                                LAMBDA e : DVal(o.constraints, e.k).linear)),
             TRUE)
    ELSE NoMatrix

\* finalizeConstraints, lines 871-983, on the collection merged that
\* _reduceDict returned in line 895.
FinalizeConstraintsOp(o, merged) ==
    LET nncon == CountRows(merged, 1, FALSE)
        nlcon == CountRows(merged, 1, TRUE)
        o1 == [o EXCEPT !.constraints = AssignRows(merged),
                        !.nnCon = nncon, !.nlCon = nlcon, !.nCon = nncon + nlcon,
                        !.conScaleNonLinear = ConScale(merged, 1, FALSE),
                        !.conScaleLinear = ConScale(merged, 1, TRUE),
                        !.xscale = XScale(o.variables, 1, 1),
                        !.denseJacobianOK = DenseOK(o, merged)]
        lin == LinearJacobian(o1)
    IN  IF lin.err # "none" THEN Raise(o1, lin.err)
        ELSE Return([o1 EXCEPT !.linearJacobian = lin])

\* ----------------------------------------------- processNonlinearConstraints
\* The outcome of the call: the vector returned or the error raised.
Vector(v) == [err |-> "none", shape |-> <<Len(v)>>, ents |-> v]

\* Lines 1104-1120, the loop over self.constraints from position i on; a
\* value of fcon_in is the sequence numpy.atleast_1d makes of it.
RECURSIVE FconLoop(_, _, _, _)
FconLoop(o, fcon_in, i, fcon) ==
    IF i > Len(o.constraints) THEN Vector(fcon)
    ELSE LET iCon == o.constraints[i].k
             con == o.constraints[i].v
         IN  IF con.linear THEN FconLoop(o, fcon_in, i + 1, fcon)
             ELSE IF ~DHas(fcon_in, iCon) THEN Failed("MissingValue")
             ELSE LET c == DVal(fcon_in, iCon)
                  IN  IF Len(c) # con.ncon THEN Failed("ShapeMismatch")
                      ELSE FconLoop(o, fcon_in, i + 1,
                               [k \in 1..Len(fcon) |->
                                   IF con.rs < k /\ k <= con.re THEN Num(c[k - con.rs])
                                   ELSE fcon[k]])

\* Lines 1097-1100.
ScaleFact_Ones(o, scaled) == [k \in 1..Len(o.conScaleNonLinear) |-> 1]
ScaleFact(o, scaled) ==
    IF scaled THEN o.conScaleNonLinear ELSE [k \in 1..Len(o.conScaleNonLinear) |-> 1]

\* processNonlinearConstraints, lines 1075-1123.  Before finalizeConstraints
\* nnCon is None and numpy.zeros raises.
ProcessNonlinearConstraintsOp(o, fcon_in, scaled) ==
    IF o.dummyConstraint THEN Vector(<<Num(0)>>)
    ELSE IF o.nnCon = NoneVal THEN Failed("NotFinalized")
    ELSE LET r == FconLoop(o, fcon_in, 1, [k \in 1..o.nnCon |-> Num(0)])
         IN  IF r.err # "none" THEN r
             ELSE Vector([k \in 1..o.nnCon |-> Times(r.ents[k], ScaleFact(o, scaled)[k])])

\* ------------------------------------------- scalar-or-array arguments
\* An argument of addVarGroup or addConGroup that may be a single value or
\* an array: whether it was passed at all, whether an array was passed, and
\* its values in a sequence, which is what numpy.atleast_1d makes of it.
NoneArg == [given |-> FALSE, array |-> FALSE, v |-> << >>]
ScalarArg(k) == [given |-> TRUE, array |-> FALSE, v |-> <<k>>]
ArrayArg(a) == [given |-> TRUE, array |-> TRUE, v |-> a]
\* A stored number: v plus inf times the value 1e20 of line 54.
Finite(k) == [inf |-> 0, v |-> k]
Infinite(sign) == [inf |-> sign, v |-> 0]

\* Lines 236-243 (value), 250-258 (lower), 264-272 (upper), 278-286 (scale),
\* 515-523, 529-537 and 540-548: an array of one entry is spread over the n
\* entries, one of n entries is kept, any other length raises.
Broadcast(x, n) ==
    IF Len(x.v) = 1 THEN Vector([k \in 1..n |-> Finite(x.v[1])])
    ELSE IF Len(x.v) = n THEN Vector([k \in 1..n |-> Finite(x.v[k])])
    ELSE Failed("ShapeMismatch")

\* Lines 247-248, 261-262, 512-513 and 526-527: a bound that is None.
BoundArgument(x, n, sign) ==
    IF ~x.given THEN Vector([k \in 1..n |-> Infinite(sign)]) ELSE Broadcast(x, n)

\* The arguments by function and name; value and scale, when they are not
\* passed, are the defaults 0.0 and 1.0 of the signatures (lines 141-143
\* and 431-433).
ProcessArgumentOp(fn, name, x, n) ==
    CASE name = "lower" -> BoundArgument(x, n, -1)
      [] name = "upper" -> BoundArgument(x, n, 1)
      [] name = "value" -> Broadcast(IF x.given THEN x ELSE ScalarArg(0), n)
      [] name = "scale" -> Broadcast(IF x.given THEN x ELSE ScalarArg(1), n)

\* -------------------------------------------------- processObjectiveGradient
\* An Objective object, as built in line 422.
Objective(name, scale) == [name |-> name, scale |-> scale]

\* addObj, lines 417-422.
AddObjOp(o, name, scale) ==
    Return([o EXCEPT !.objectives = DPut(@, name, Objective(name, scale))])

\* Lines 1174-1195, the loop over the keys of gobj_in from position i on.
RECURSIVE GobjLoop(_, _, _, _)
GobjLoop(o, gobj_in, i, gobj) ==
    IF i > Len(gobj_in) THEN Vector(gobj)
    ELSE LET key == gobj_in[i].k
             g == gobj_in[i].v
         IN  IF ~DHas(o.variables, key) THEN GobjLoop(o, gobj_in, i + 1, gobj)
             ELSE LET ss == DVal(DVal(o.dvOffset, key), "n")
                  IN  IF Len(g) # ss[2] - ss[1] THEN Failed("ShapeMismatch")
                      ELSE GobjLoop(o, gobj_in, i + 1,
                               [k \in 1..Len(gobj) |->
                                   IF ss[1] < k /\ k <= ss[2] THEN Num(g[k - ss[1]])
                                   ELSE gobj[k]])

\* Lines 1208-1213: gobj /= self.xscale, then gobj *= the objective's scale.
ObjScale(o, obj) == DVal(o.objectives, obj).scale
ScaleGradient(o, gobj, obj) ==
    [k \in 1..Len(gobj) |-> Times(Over(gobj[k], o.xscale[k]), ObjScale(o, obj))]

\* processObjectiveGradient, lines 1150-1215.  Before the finalization
\* steps ndvs and xscale are None and every path ends in an exception.
ProcessObjectiveGradientOp(o, gobj_in, obj) ==
    IF o.ndvs = NoneVal \/ o.nCon = NoneVal THEN Failed("NotFinalized")
    ELSE LET r == IF gobj_in.form = "dict"
                  THEN GobjLoop(o, gobj_in.cons, 1, [k \in 1..o.ndvs |-> Num(0)])
                  ELSE IF Len(gobj_in.rows) # o.ndvs THEN Failed("ShapeMismatch")
                  ELSE Vector([k \in 1..o.ndvs |-> Num(gobj_in.rows[k])])
         IN  IF r.err # "none" THEN r
             ELSE IF Len(o.xscale) # Len(r.ents) THEN Failed("ValueError")
             ELSE IF ~DHas(o.objectives, obj) THEN Failed("KeyError")
             ELSE Vector(ScaleGradient(o, r.ents, obj))

\* ------------------------------------------------------------------ codec
\* A value of the named form: a single number (scalar group) or an array.
Scalar(v) == [scalar |-> TRUE, data |-> <<v>>]
Array(s) == [scalar |-> FALSE, data |-> s]

\* All (set index, group index) pairs of self.variables, in iteration order.
RECURSIVE GroupsFrom(_, _, _)
GroupsFrom(variables, i, j) ==
    IF i > Len(variables) THEN << >>
    ELSE IF j > Len(variables[i].v) THEN GroupsFrom(variables, i + 1, 1)
    ELSE <<[dvSet |-> variables[i].k, dvGroup |-> variables[i].v[j].k,
            n |-> Len(variables[i].v[j].v),
            scalar |-> variables[i].v[j].v[1].scalar]>>
         \o GroupsFrom(variables, i, j + 1)
AllGroups(variables) == GroupsFrom(variables, 1, 1)

GroupOffset(o, g) == DVal(DVal(o.dvOffset, g.dvSet), g.dvGroup)

\* x[istart:iend] of a Python sequence (0-based, clipped to its length).
Slice(x, istart, iend) == SubSeq(x, istart + 1, Min(iend, Len(x)))

\* processX with useGroups, lines 999-1011: xg maps group names to values.
RECURSIVE ProcessXLoop(_, _, _, _, _)
ProcessXLoop(o, gs, i, x, xg) ==
    IF i > Len(gs) THEN xg
    ELSE LET off == GroupOffset(o, gs[i])
             val == IF off[3] THEN Scalar(x[off[1] + 1])
                              ELSE Array(Slice(x, off[1], off[2]))
         IN  ProcessXLoop(o, gs, i + 1, x,
                 [g \in DOMAIN xg \cup {gs[i].dvGroup} |->
                     IF g = gs[i].dvGroup THEN val ELSE xg[g]])

ProcessXOp(o, x) == ProcessXLoop(o, AllGroups(o.variables), 1, x, << >>)

\* deProcessX with useGroups, lines 1033-1044.  x_array[istart:iend] = v is
\* numpy's assignment: v is a single value or has one element (broadcast), or
\* it has as many elements as the slice; anything else raises ValueError.
RECURSIVE DeProcessXLoop(_, _, _, _, _)
DeProcessXLoop(o, gs, i, x, x_array) ==
    IF i > Len(gs) THEN [x |-> x_array, err |-> "none"]
    ELSE IF gs[i].dvGroup \notin DOMAIN x THEN [x |-> x_array, err |-> "KeyError"]
    ELSE LET off == GroupOffset(o, gs[i])
             v == x[gs[i].dvGroup]
             iend == Min(off[2], Len(x_array))
         IN  IF off[3]
             THEN IF Len(v.data) # 1 THEN [x |-> x_array, err |-> "ValueError"]
                  ELSE DeProcessXLoop(o, gs, i + 1, x,
                           [x_array EXCEPT ![off[1] + 1] = v.data[1]])
             ELSE IF Len(v.data) # 1 /\ Len(v.data) # iend - off[1]
                  THEN [x |-> x_array, err |-> "ValueError"]
                  ELSE DeProcessXLoop(o, gs, i + 1, x,
                           [k \in 1..Len(x_array) |->
                               IF k > off[1] /\ k <= iend
                               THEN (IF Len(v.data) = 1 THEN v.data[1]
                                                        ELSE v.data[k - off[1]])
                               ELSE x_array[k]])

DeProcessXOp(o, x) ==
    DeProcessXLoop(o, AllGroups(o.variables), 1, x, [k \in 1..o.ndvs |-> 0])

\* ------------------------------------------------------ getDVs and setDVs
\* len(name) of a name the model uses: the group and set names have one
\* character, the name that is no group two.
NameLen(name) == IF name = UnknownName THEN 2 ELSE 1

\* getDVs with useGroups, lines 687-695: the values of every group, as a
\* dictionary of the sets' dictionaries.
GroupedValues(variables) ==
    [i \in 1..Len(variables) |->
        [k |-> variables[i].k,
         v |-> [j \in 1..Len(variables[i].v) |->
                   [k |-> variables[i].v[j].k,
                    v |-> [n \in 1..Len(variables[i].v[j].v) |->
                              variables[i].v[j].v[n].value]]]]]

\* Lines 697-706, the loop over the groups gs from position g on: a scalar
\* group gives the value of its variable, any other group the values of
\* its variables istart, ..., iend - 1, which raises IndexError when the
\* group has no variable of that index.
RECURSIVE GetFlatLoop(_, _, _, _)
GetFlatLoop(o, gs, g, outDVs) ==
    IF g > Len(gs) THEN Vector(outDVs)
    ELSE LET off == GroupOffset(o, gs[g])
             vs == DVal(DVal(o.variables, gs[g].dvSet), gs[g].dvGroup)
         IN  IF off[3]
             THEN GetFlatLoop(o, gs, g + 1, [outDVs EXCEPT ![off[1] + 1] = vs[1].value])
             ELSE IF off[2] > off[1] /\ off[2] > Len(vs) THEN Failed("IndexError")
             ELSE GetFlatLoop(o, gs, g + 1,
                      [k \in 1..Len(outDVs) |->
                          IF off[1] < k /\ k <= off[2] THEN vs[k].value ELSE outDVs[k]])

\* The outcome of getDVs: the dictionary or the vector in the field ents.
GetDVsOp(o) ==
    IF o.useGroups THEN Vector(GroupedValues(o.variables))
    ELSE IF o.ndvs = NoneVal THEN Failed("NotFinalized")
    ELSE GetFlatLoop(o, AllGroups(o.variables), 1, [k \in 1..o.ndvs |-> 0])

\* vs[i].value = src[j] for the pairs <<i, j>> of 0-based indices from
\* position k on; an index past the end of either list raises IndexError
\* and leaves the earlier assignments in place.
RECURSIVE AssignLoop(_, _, _, _)
AssignLoop(vs, src, pairs, k) ==
    IF k > Len(pairs) THEN [vs |-> vs, err |-> "none"]
    ELSE IF pairs[k][1] >= Len(vs) \/ pairs[k][2] >= Len(src)
    THEN [vs |-> vs, err |-> "IndexError"]
    ELSE AssignLoop([vs EXCEPT ![pairs[k][1] + 1].value = src[pairs[k][2] + 1]],
                    src, pairs, k + 1)

\* Line 719 (groupLength = len(dvGroup)) and lines 720-721.
GroupLength(name, vs) == NameLen(name)

\* setDVs, lines 711-734, the loop over the groups gs from position g on.
\* With useGroups a group is assigned when inDVs has its set and, in it,
\* the group; without, inDVs is the flat vector.
RECURSIVE SetDVsLoop(_, _, _, _)
SetDVsLoop(o, inDVs, gs, g) ==
    IF g > Len(gs) THEN Return(o)
    ELSE LET dvSet == gs[g].dvSet
             dvGroup == gs[g].dvGroup
             vs == DVal(DVal(o.variables, dvSet), dvGroup)
             skip == o.useGroups /\ ~(DHas(inDVs, dvSet) /\ DHas(DVal(inDVs, dvSet), dvGroup))
             off == GroupOffset(o, gs[g])
             r == IF o.useGroups
                  THEN AssignLoop(vs, DVal(DVal(inDVs, dvSet), dvGroup),
                                  [n \in 1..GroupLength(dvGroup, vs) |-> <<n - 1, n - 1>>], 1)
                  ELSE IF off[3] THEN AssignLoop(vs, inDVs, <<(<<0, off[1]>>)>>, 1)
                  ELSE AssignLoop(vs, inDVs,
                                  [n \in 1..(off[2] - off[1]) |->
                                      <<off[1] + n - 1, off[1] + n - 1>>], 1)
             o1 == [o EXCEPT !.variables =
                       DPut(@, dvSet, DPut(DVal(@, dvSet), dvGroup, r.vs))]
         IN  IF skip THEN SetDVsLoop(o, inDVs, gs, g + 1)
             ELSE IF r.err # "none" THEN Raise(o1, r.err)
             ELSE SetDVsLoop(o1, inDVs, gs, g + 1)

SetDVsOp(o, inDVs) ==
    IF ~o.useGroups /\ o.ndvs = NoneVal THEN Raise(o, "NotFinalized")
    ELSE SetDVsLoop(o, inDVs, AllGroups(o.variables), 1)

\* ------------------------------------------------------------------ actions
MaxCalls == 3           \* calls on opt in one behaviour
MaxOwnVarCalls == 2     \* addVarSet/addVarGroup calls behind a registry the codec starts from
MaxStartVarCalls == 0   \* the same for a registry the constraint declarations start from
MaxCells == 2           \* entries of a Jacobian block of the constraint c
MaxJacVal == 2          \* the entries of a submitted block are drawn from 0..MaxJacVal
MaxJacScale == 2        \* variable and constraint scales are drawn from 1..MaxJacScale

OtherRanks == RegRanks \ {rank}
NoCall == [op |-> "none", err |-> "none"]
NoCodec == [op |-> "none", chained |-> FALSE, err |-> "none",
            flat |-> << >>, named |-> << >>, srcFlat |-> << >>, srcNamed |-> << >>]
NoAsm == [op |-> "none", arg |-> << >>, flag |-> FALSE, res |-> Matrix(<< >>, << >>)]

\* The objects a process can hold after at most n addVarSet / addVarGroup
\* calls, with arguments from Args, on a new Optimization.
RECURSIVE OptsAfter(_, _)
OptsAfter(n, Args) ==
    IF n = 0 THEN {NewOpt}
    ELSE LET prev == OptsAfter(n - 1, Args)
         IN  prev \cup {AddVarGroupOp(o, a).o : o \in prev, a \in Args}
                  \cup {AddVarSetOp(o, s).o : o \in prev, s \in SetNames}

\* The other processes declare groups of one variable.
PeerVarGroupArgs == {a \in AddVarGroupArgs : a.nVars = 1 /\ ~a.scalar}
PeerVarDicts == {o.variables : o \in OptsAfter(MaxPeerVarCalls, PeerVarGroupArgs)}

\* The arguments of addConGroup a specification draws from: "plain" is one
\* nonlinear constraint on all variable sets, "rows" varies what decides the
\* row ranges (nCon and linear; a linear constraint comes with its jac),
\* "wrt" varies the form and the names of wrt,
\* "jac" is the one nonlinear constraint e, with scale MaxJacScale, that
\* another process adds to the constraints the assembly is checked on, "all"
\* varies every argument.
WrtNone == [given |-> FALSE, str |-> FALSE, names |-> << >>]
\* wrt as None, as one name in a string, or as a list of up to two entries:
\* names of variable sets, a name that is none, None.
WrtForms(o) ==
    {WrtNone} \cup
    {[given |-> TRUE, str |-> TRUE, names |-> <<n>>] :
        n \in DKeySet(o.variables) \cup {UnknownName}} \cup
    {[given |-> TRUE, str |-> FALSE, names |-> w] :
        w \in SeqsUpTo(DKeySet(o.variables) \cup {UnknownName, NoneName}, 2)}
ConArgs(kind, o) ==
    CASE kind = "plain" ->
            [name : ConNames, nCon : {1}, linear : {FALSE}, wrt : {WrtNone},
             jac : {FALSE}, blocks : {<< >>}, scale : {<<1>>}, bad : {"none"}]
      [] kind = "rows" ->
            {a \in [name : ConNames, nCon : 1..MaxNCon, linear : BOOLEAN,
                    wrt : {WrtNone}, jac : BOOLEAN, blocks : {<< >>},
                    scale : {<<1>>}, bad : {"none"}] :
                a.jac = a.linear}
      [] kind = "wrt" ->
            [name : {"c", "d"}, nCon : {1}, linear : {FALSE}, wrt : WrtForms(o),
             jac : {FALSE}, blocks : {<< >>}, scale : {<<1>>}, bad : {"none"}]
      [] kind = "jac" ->
            [name : {"e"}, nCon : {1}, linear : {FALSE}, wrt : {WrtNone},
             jac : {FALSE}, blocks : {<< >>}, scale : {<<MaxJacScale>>}, bad : {"none"}]
      [] OTHER -> AddConGroupArgs(o)

\* The objects a process can hold after at most n addConGroup calls on o.
RECURSIVE ConOptsAfter(_, _, _)
ConOptsAfter(o, n, kind) ==
    IF n = 0 THEN {o}
    ELSE LET prev == ConOptsAfter(o, n - 1, kind)
         IN  prev \cup UNION {{AddConGroupOp(q, a).o : a \in ConArgs(kind, q)} : q \in prev}

\* What the other processes bring to a collective call: before their first
\* one, any collection they can have declared; afterwards what that call
\* left them with.
PeerVarChoices ==
    IF peers.varsDeclared THEN {peers.vars} ELSE [OtherRanks -> PeerVarDicts]

PeerConDicts(kind) ==
    {q.constraints :
        q \in ConOptsAfter([opt EXCEPT !.constraints = << >>, !.conGroupNames = {}],
                           MaxPeerConCalls, kind)}
PeerConChoices(kind) ==
    IF peers.consDeclared THEN {peers.cons} ELSE [OtherRanks -> PeerConDicts(kind)]

\* The list of collections the communicator holds, by rank.
Collections(mine, theirs) ==
    [i \in 1..(NPeers + 1) |-> IF i - 1 = rank THEN mine ELSE theirs[i - 1]]

\* A call of a method of opt with the outcome r; args is what is kept of its
\* arguments.
CalledWith(op, r, args) ==
    /\ calls < MaxCalls
    /\ calls' = calls + 1
    /\ opt' = r.o
    /\ lastCall' = [op |-> op, err |-> r.err]
    /\ codec' = NoCodec
    /\ asm' = args
    /\ UNCHANGED <<rank, iterMutationRaises, reduceVars>>
Called(op, r) == CalledWith(op, r, NoAsm)

AddVarSet ==
    \E name \in SetNames \cup GroupNames :
        /\ Called("addVarSet", AddVarSetOp(opt, name))
        /\ UNCHANGED peers

AddVarGroup ==
    \E a \in AddVarGroupArgs :
        /\ Called("addVarGroup", AddVarGroupOp(opt, a))
        /\ UNCHANGED peers

DelVar ==
    \E name \in GroupNames :
        /\ Called("delVar", DelVarOp(opt, name, iterMutationRaises))
        /\ UNCHANGED peers

DelVarSet ==
    \E name \in SetNames \cup GroupNames :
        /\ Called("delVarSet", DelVarSetOp(opt, name))
        /\ UNCHANGED peers

\* The collective calls.  The other processes run the same code on the same
\* merged collection, so they are left with the collection this one holds.
FinalizeDesignVariables ==
    \E pv \in PeerVarChoices :
      \E merged \in ReduceDict(Collections(opt.variables, pv), dictOrdered) :
        LET r == FinalizeDesignVariablesOp(opt, merged, iterMutationRaises)
        IN  /\ Called("finalizeDesignVariables", r)
            /\ peers' = [peers EXCEPT !.vars = [p \in OtherRanks |-> r.o.variables],
                                      !.varsDeclared = TRUE]

AddConGroup(kind) ==
    \E a \in ConArgs(kind, opt) :
        /\ Called("addConGroup", AddConGroupOp(opt, a))
        /\ UNCHANGED peers

FinalizeConstraints(kind) ==
    \E pc \in PeerConChoices(kind) :
      \E merged \in ReduceDict(Collections(opt.constraints, pc), dictOrdered) :
        LET r == FinalizeConstraintsOp(opt, merged)
        IN  /\ Called("finalizeConstraints", r)
            /\ peers' = [peers EXCEPT !.cons = [p \in OtherRanks |-> r.o.constraints],
                                      !.consDeclared = TRUE]

\* The protocol's variables while the registry is looked at on its own.
ReduceQuiet ==
    /\ rpc = [p \in Procs |-> "done"]
    /\ rvars = [p \in Procs |-> << >>]
    /\ rinit = [p \in Procs |-> << >>]
    /\ gathered = [p \in Procs |-> NotPosted]
    /\ procKeys = [p \in Procs |-> << >>]
    /\ bc1 = NotPosted
    /\ bc2 = NotPosted
    /\ chan = [p \in Procs |-> << >>]
    /\ idx = [p \in Procs |-> 1]
    /\ sent = << >>
    /\ eager = FALSE

ReduceIdle ==
    /\ ReduceQuiet
    /\ dictOrdered \in BOOLEAN

NoPeers == [vars |-> [p \in OtherRanks |-> << >>], cons |-> [p \in OtherRanks |-> << >>],
            varsDeclared |-> FALSE, consDeclared |-> FALSE]

RegistryIdle ==
    /\ opt = NewOpt
    /\ rank = 0
    /\ peers = NoPeers
    /\ lastCall = NoCall
    /\ iterMutationRaises = FALSE
    /\ codec = NoCodec
    /\ asm = NoAsm
    /\ calls = 0

\* The whole life of a registry, from a new Optimization.
Init ==
    /\ ReduceIdle
    /\ opt = NewOpt
    /\ rank \in RegRanks
    /\ peers = NoPeers
    /\ lastCall = NoCall
    /\ iterMutationRaises \in BOOLEAN
    /\ codec = NoCodec
    /\ asm = NoAsm
    /\ calls = 0

Next ==
    \/ AddVarSet
    \/ AddVarGroup
    \/ DelVar
    \/ DelVarSet
    \/ FinalizeDesignVariables
    \/ AddConGroup("plain")
    \/ FinalizeConstraints("plain")

Spec == Init /\ [][Next]_vars

\* ---------------------------------------------- constraint declarations
\* A registry whose variables are finalized: at most n declarations on this
\* process, any declarations on the others, and a finalizeDesignVariables
\* that returned.
StartFinalized(n) ==
    /\ ReduceIdle
    /\ rank \in RegRanks
    /\ iterMutationRaises \in BOOLEAN
    /\ \E o \in OptsAfter(n, AddVarGroupArgs) :
         \E pv \in [OtherRanks -> PeerVarDicts] :
          \E merged \in ReduceDict(Collections(o.variables, pv), dictOrdered) :
            LET r == FinalizeDesignVariablesOp(o, merged, iterMutationRaises)
            IN  /\ r.err = "none"
                /\ opt = r.o
                /\ peers = [NoPeers EXCEPT !.vars = [p \in OtherRanks |-> r.o.variables],
                                           !.varsDeclared = TRUE]
    /\ lastCall = [op |-> "finalizeDesignVariables", err |-> "none"]
    /\ codec = NoCodec
    /\ asm = NoAsm
    /\ calls = 0

InitCons == StartFinalized(MaxStartVarCalls)

NextCons ==
    \/ AddConGroup("rows")
    \/ FinalizeConstraints("rows")

SpecCons == InitCons /\ [][NextCons]_vars

\* ------------------------------------------------------------ the codec
\* The flat vectors and the named forms handed to the codec.
FlatInputs(o) == [1..o.ndvs -> 1..MaxXVal]
ShapedValues(g) ==
    IF g.scalar THEN {Scalar(v) : v \in 1..MaxXVal}
    ELSE {Array(s) : s \in [1..g.n -> 1..MaxXVal]}
NamedInputs(o) ==
    LET gs == AllGroups(o.variables)
        names == {gs[i].dvGroup : i \in 1..Len(gs)}
        values == UNION {ShapedValues(gs[i]) : i \in 1..Len(gs)}
    IN  {d \in [names -> values] :
            \A name \in names :
                \E i \in 1..Len(gs) : gs[i].dvGroup = name /\ d[name] \in ShapedValues(gs[i])}

\* processX on a flat vector the caller supplies, or on the one the latest
\* deProcessX returned.
ProcessX ==
    /\ opt.ndvs # NoneVal
    /\ \/ \E x \in FlatInputs(opt) :
             codec' = [op |-> "processX", chained |-> FALSE, err |-> "none",
                       flat |-> x, named |-> ProcessXOp(opt, x),
                       srcFlat |-> x, srcNamed |-> << >>]
       \/ /\ codec.op = "deProcessX" /\ ~codec.chained /\ codec.err = "none"
          /\ codec' = [codec EXCEPT !.op = "processX", !.chained = TRUE,
                                    !.named = ProcessXOp(opt, codec.flat)]
    /\ UNCHANGED <<opt, rank, peers, calls, lastCall, iterMutationRaises, asm, reduceVars>>

\* deProcessX on a named form the caller supplies, or on the one the latest
\* processX returned.
DeProcessX ==
    /\ opt.ndvs # NoneVal
    /\ \/ \E d \in NamedInputs(opt) :
             LET r == DeProcessXOp(opt, d)
             IN  codec' = [op |-> "deProcessX", chained |-> FALSE, err |-> r.err,
                           flat |-> r.x, named |-> d,
                           srcFlat |-> << >>, srcNamed |-> d]
       \/ /\ codec.op = "processX" /\ ~codec.chained
          /\ LET r == DeProcessXOp(opt, codec.named)
             IN  codec' = [codec EXCEPT !.op = "deProcessX", !.chained = TRUE,
                                        !.err = r.err, !.flat = r.x]
    /\ UNCHANGED <<opt, rank, peers, calls, lastCall, iterMutationRaises, asm, reduceVars>>

InitCodec ==
    /\ StartFinalized(MaxOwnVarCalls)
    /\ opt.ndvs <= MaxCodecLen

NextCodec ==
    \/ ProcessX
    \/ DeProcessX

SpecCodec == InitCodec /\ [][NextCodec]_vars

\* ---------------------------------------------------------- the assembly
\* The registries the assembly is checked on: the variable set a, of one or
\* two variables with a scale of their own, alone or followed by the set n
\* of one variable; the constraint c declared here, with every choice of
\* nCon, linear, wrt, scale and Jacobian template that keeps its blocks
\* within MaxCells entries; and the constraint e another process declares.
JacVarArgs ==
    {a \in [name : GroupNames, nVars : 1..MaxVars, type : {"c"}, varSet : {NoneName},
            scalar : {FALSE}, bad : {"none"}, value : VarValues, scale : 1..MaxJacScale] :
        a.name = "n" => (a.nVars = 1 /\ a.scale = 1)}

\* The array whose k-th entry, row by row, is k, with a zero at entry z.
CountMatrix(r, c, z) ==
    [i \in 1..r |-> [j \in 1..c |-> IF (i - 1) * c + j = z THEN 0 ELSE (i - 1) * c + j]]

\* The sparse r x c matrix that stores the entries P, entry k holding val[k].
SparseOf(r, c, P, val) ==
    LET cs == Cells(r, c)
        kept == SelectSeq([k \in 1..Len(cs) |-> k], LAMBDA k : k \in P)
    IN  Csr(<<r, c>>, [n \in 1..Len(kept) |->
                          [i |-> cs[kept[n]].i, j |-> cs[kept[n]].j, v |-> Num(val[kept[n]])]])

\* The Jacobian templates c is declared with for the set a: dense without
\* and with a zero, and sparse with one stored entry.
Templates(r, c) ==
    {DenseBlock(CountMatrix(r, c, z)) : z \in 0..1} \cup
    {SparseOf(r, c, {k}, [n \in {k} |-> 1]) : k \in 1..(r * c)}

JacWrtInputs == {WrtNone, [given |-> TRUE, str |-> FALSE, names |-> <<"a">>]}
JacConArgs(o) ==
    {a \in [name : {"c"}, nCon : 1..MaxNCon, linear : BOOLEAN, wrt : JacWrtInputs,
            jac : BOOLEAN,
            blocks : {<< >>} \cup
                     UNION {{<<[k |-> "a", v |-> b]>> : b \in Templates(n, SetWidth(o, "a"))} :
                               n \in 1..MaxNCon},
            scale : {<<1>>, <<MaxJacScale>>}, bad : {"none"}] :
        /\ a.nCon * SetWidth(o, "a") <= MaxCells
        /\ ~a.jac => a.blocks = << >>
        /\ \A i \in 1..Len(a.blocks) : Shape(a.blocks[i].v)[1] = a.nCon}

InitJac ==
    /\ ReduceQuiet
    /\ dictOrdered = TRUE
    /\ iterMutationRaises = FALSE
    /\ rank \in RegRanks
    /\ \E o \in OptsAfter(2, JacVarArgs) :
         LET r == FinalizeDesignVariablesOp(o, o.variables, iterMutationRaises)
         IN  /\ DKeys(o.variables) \in {<<"a">>, <<"a", "n">>}
             /\ \A i \in 1..Len(o.variables) : o.variables[i].v # << >>
             /\ r.err = "none"
             /\ opt \in {r.o} \cup {c.o : c \in {AddConGroupOp(r.o, a) : a \in JacConArgs(r.o)}}
             /\ peers = [NoPeers EXCEPT !.vars = [p \in OtherRanks |-> r.o.variables],
                                        !.varsDeclared = TRUE]
    /\ lastCall = [op |-> "finalizeDesignVariables", err |-> "none"]
    /\ codec = NoCodec
    /\ asm = NoAsm
    /\ calls = 0

\* A block of a submission, or its absence.
Omitted == [omit |-> TRUE, block |-> DenseBlock(<< >>)]
Given(b) == [omit |-> FALSE, block |-> b]
Ones(r, c) == DenseBlock([i \in 1..r |-> [j \in 1..c |-> 1]])

\* The blocks submitted for an r x c template: every dense array and every
\* sparse matrix of that shape with entries up to MaxJacVal, and an array
\* with a column too many.
BlockChoices(r, c) ==
    {DenseBlock(rows) : rows \in [1..r -> [1..c -> 0..MaxJacVal]]} \cup
    UNION {{SparseOf(r, c, P, val) : val \in [P -> 1..MaxJacVal]} : P \in SUBSET (1..(r * c))} \cup
    {Ones(r, c + 1)}
FocusChoices(r, c) == {Omitted} \cup {Given(b) : b \in BlockChoices(r, c)}
PlainChoices(r, c) == {Omitted, Given(Ones(r, c))}

\* The dictionary of blocks of one constraint, from one choice per set of wrt.
ConDict(con, ch) ==
    LET kept == SelectSeq([i \in 1..Len(con.wrt) |-> i], LAMBDA i : ~ch[i].omit)
    IN  [n \in 1..Len(kept) |-> [k |-> con.wrt[kept[n]], v |-> ch[kept[n]].block]]

\* One choice per set of con.wrt from position i on: any block at position
\* f, a plain one elsewhere.
RECURSIVE ChoiceSeqs(_, _, _, _)
ChoiceSeqs(o, con, f, i) ==
    IF i > Len(con.wrt) THEN {<< >>}
    ELSE {<<c>> \o rest :
            c \in IF i = f THEN FocusChoices(con.ncon, SetWidth(o, con.wrt[i]))
                           ELSE PlainChoices(con.ncon, SetWidth(o, con.wrt[i])),
            rest \in ChoiceSeqs(o, con, f, i + 1)}

\* The submissions for the constraints from position i on: the constraint at
\* position fc brings any block for its f-th set; another one is absent,
\* brings no block or brings plain blocks for all its sets.
RECURSIVE SubsFrom(_, _, _, _)
SubsFrom(o, fc, f, i) ==
    IF i > Len(o.constraints) THEN {<< >>}
    ELSE LET iCon == o.constraints[i].k
             con == o.constraints[i].v
             mine == IF i = fc
                     THEN {<<[k |-> iCon, v |-> ConDict(con, ch)]>> :
                              ch \in ChoiceSeqs(o, con, f, 1)}
                     ELSE {<< >>, <<[k |-> iCon, v |-> << >>]>>,
                           <<[k |-> iCon,
                              v |-> ConDict(con, [n \in 1..Len(con.wrt) |->
                                       Given(Ones(con.ncon, SetWidth(o, con.wrt[n])))])]>>}
         IN  {m \o rest : m \in mine, rest \in SubsFrom(o, fc, f, i + 1)}

DictSubmissions(o) ==
    {DictForm(d) :
        d \in SubsFrom(o, 0, 0, 1) \cup
              UNION {UNION {SubsFrom(o, fc, f, 1) : f \in 1..Len(o.constraints[fc].v.wrt)} :
                        fc \in 1..Len(o.constraints)}}

\* The full arrays submitted for a partition of r rows: the counting array,
\* with a zero at any one entry or without, and one with a row too many.
DenseSubmissions(o, r) ==
    {DenseForm(CountMatrix(r, o.ndvs, z)) : z \in 0..(r * o.ndvs)} \cup
    {DenseForm(CountMatrix(r + 1, o.ndvs, 0))}

\* The optimizers call the two assembly functions on a problem whose
\* constraints are finalized.  A call leaves the object as it is, so one
\* call is followed from each state of the object.  The dense blocks and
\* the full array come as numpy arrays (arrays) or as nested lists; after
\* is what the caller's argument holds when the call is over.
ProcessConstraintJacobian ==
    /\ opt.nCon # NoneVal
    /\ asm = NoAsm
    /\ \E linearFlag \in BOOLEAN, arrays \in BOOLEAN :
         \E gcon \in DictSubmissions(opt) \cup
                     DenseSubmissions(opt, IF linearFlag THEN opt.nlCon ELSE opt.nnCon) :
            asm' = [op |-> "processConstraintJacobian", arg |-> gcon, flag |-> linearFlag,
                    res |-> ProcessConstraintJacobianOp(opt, gcon, linearFlag),
                    arrays |-> arrays,
                    after |-> GconAfter(opt, gcon, linearFlag, arrays)]
    /\ UNCHANGED <<opt, rank, peers, calls, lastCall, iterMutationRaises, codec, reduceVars>>

\* The constraint values submitted: for every constraint no value, ncon
\* values or one value too many, and possibly a value under a name that is
\* no constraint.
RECURSIVE FconFrom(_, _)
FconFrom(o, i) ==
    IF i > Len(o.constraints) THEN {<< >>, <<[k |-> UnknownName, v |-> <<1>>]>>}
    ELSE LET iCon == o.constraints[i].k
             con == o.constraints[i].v
         IN  {m \o rest :
                 m \in {<< >>} \cup
                       {<<[k |-> iCon, v |-> [n \in 1..len |-> n + con.ncon * (i - 1)]]>> :
                           len \in {con.ncon, con.ncon + 1}},
                 rest \in FconFrom(o, i + 1)}

ProcessNonlinearConstraints ==
    /\ opt.nCon # NoneVal
    /\ asm = NoAsm
    /\ \E scaled \in BOOLEAN :
         \E fcon_in \in FconFrom(opt, 1) :
            asm' = [op |-> "processNonlinearConstraints", arg |-> fcon_in, flag |-> scaled,
                    res |-> ProcessNonlinearConstraintsOp(opt, fcon_in, scaled)]
    /\ UNCHANGED <<opt, rank, peers, calls, lastCall, iterMutationRaises, codec, reduceVars>>

\* An optimizer that needs a Jacobian with at least one row marks a problem
\* without constraints (the attribute dummyConstraint of line 116).
MarkDummyConstraint ==
    /\ opt.nCon = 0
    /\ ~opt.dummyConstraint
    /\ Called("dummyConstraint", Return([opt EXCEPT !.dummyConstraint = TRUE]))
    /\ UNCHANGED peers

\* finalizeConstraints is called once, by the optimizer.
FinalizeConstraintsOnce == opt.nCon = NoneVal /\ FinalizeConstraints("jac")

NextJac ==
    \/ FinalizeConstraintsOnce
    \/ MarkDummyConstraint
    \/ ProcessConstraintJacobian
    \/ ProcessNonlinearConstraints

SpecJac == InitJac /\ [][NextJac]_vars

\* ---------------------------------------------------- the objective gradient
\* Registries of one or two variable sets (the set s and the sets the
\* groups a and n make for themselves), variables with a scale of their
\* own, both finalization steps done and no constraint.
GradVarArgs ==
    [name : GroupNames, nVars : 1..MaxVars, type : {"c"}, varSet : {"s", NoneName},
     scalar : {FALSE}, bad : {"none"}, value : VarValues, scale : 1..MaxJacScale]

RECURSIVE SetSize(_, _)
SetSize(groups, j) ==
    IF j > Len(groups) THEN 0 ELSE Len(groups[j].v) + SetSize(groups, j + 1)

InitGrad ==
    /\ ReduceQuiet
    /\ dictOrdered = TRUE
    /\ iterMutationRaises = FALSE
    /\ rank = 0
    /\ \E o \in OptsAfter(2, GradVarArgs) :
         LET r == FinalizeDesignVariablesOp(o, o.variables, iterMutationRaises)
             c == FinalizeConstraintsOp(r.o, << >>)
         IN  /\ r.err = "none"
             /\ c.err = "none"
             /\ opt = c.o
             /\ peers = [NoPeers EXCEPT !.vars = [p \in OtherRanks |-> r.o.variables],
                                        !.varsDeclared = TRUE, !.consDeclared = TRUE]
    /\ lastCall = [op |-> "finalizeConstraints", err |-> "none"]
    /\ codec = NoCodec
    /\ asm = NoAsm
    /\ calls = 0

\* The vector 1, 2, ..., n with a zero at entry z.
CountVector(n, z) == [k \in 1..n |-> IF k = z THEN 0 ELSE k]

\* The gradients submitted as a dictionary, for the variable sets from
\* position i on: a set is left out or brings an array as long as the set is
\* wide, as long as dvOffset says, or one longer; a key that names no set
\* may come last.
RECURSIVE GobjFrom(_, _)
GobjFrom(o, i) ==
    IF i > Len(o.variables) THEN {<< >>, <<[k |-> UnknownName, v |-> <<1>>]>>}
    ELSE LET dvSet == o.variables[i].k
             w == SetSize(o.variables[i].v, 1)
         IN  {m \o rest :
                 m \in {<< >>} \cup
                       {<<[k |-> dvSet, v |-> CountVector(len, z)]>> :
                           len \in {w, w + 1, SetWidth(o, dvSet)}, z \in 0..1},
                 rest \in GobjFrom(o, i + 1)}

GobjSubmissions(o) ==
    {DictForm(d) : d \in GobjFrom(o, 1)} \cup
    {DenseForm(CountVector(n, z)) : n \in {o.ndvs, o.ndvs + 1}, z \in 0..1}

AddObj ==
    \E scale \in 1..MaxJacScale :
        /\ Called("addObj", AddObjOp(opt, "f", scale))
        /\ UNCHANGED peers

ProcessObjectiveGradient ==
    /\ asm = NoAsm
    /\ \E gobj_in \in GobjSubmissions(opt) :
         asm' = [op |-> "processObjectiveGradient", arg |-> gobj_in, flag |-> FALSE,
                 res |-> ProcessObjectiveGradientOp(opt, gobj_in, "f")]
    /\ UNCHANGED <<opt, rank, peers, calls, lastCall, iterMutationRaises, codec, reduceVars>>

NextGrad ==
    \/ AddObj
    \/ ProcessObjectiveGradient

SpecGrad == InitGrad /\ [][NextGrad]_vars

\* ------------------------------------------- scalar-or-array arguments
\* One argument of an addVarGroup or addConGroup call at a time: not passed,
\* a single value, or an array of up to count + 1 values.
ArgInputs(n) ==
    {NoneArg} \cup {ScalarArg(k) : k \in 0..MaxXVal}
              \cup {ArrayArg(a) : a \in SeqsUpTo(1..MaxXVal, n + 1)}

InitArgs ==
    /\ ReduceQuiet
    /\ dictOrdered = TRUE
    /\ RegistryIdle

\* The result of processing one argument, kept with the argument.
ArgumentResult(fn, name, n, x) ==
    [op |-> fn, arg |-> [name |-> name, count |-> n, x |-> x], flag |-> FALSE,
     res |-> ProcessArgumentOp(fn, name, x, n)]

AddVarGroupArgument ==
    /\ asm = NoAsm
    /\ \E name \in {"value", "lower", "upper", "scale"} :
        \E n \in 1..MaxVars : \E x \in ArgInputs(n) :
            asm' = ArgumentResult("addVarGroup", name, n, x)
    /\ UNCHANGED <<opt, rank, peers, calls, lastCall, iterMutationRaises, codec, reduceVars>>

AddConGroupArgument ==
    /\ asm = NoAsm
    /\ \E name \in {"lower", "upper", "scale"} :
        \E n \in 1..MaxNCon : \E x \in ArgInputs(n) :
            asm' = ArgumentResult("addConGroup", name, n, x)
    /\ UNCHANGED <<opt, rank, peers, calls, lastCall, iterMutationRaises, codec, reduceVars>>

NextArgs ==
    \/ AddVarGroupArgument
    \/ AddConGroupArgument

SpecArgs == InitArgs /\ [][NextArgs]_vars

\* ------------------------------------------------------ getDVs and setDVs
\* Finalized registries of one or two groups, built with or without
\* useGroups, whose values are set and read back.
DvVarArgs ==
    {a \in [name : GroupNames, nVars : 1..MaxVars, type : {"c"}, varSet : {"s", NoneName},
            scalar : BOOLEAN, bad : {"none"}, value : VarValues, scale : VarScales] :
        a.scalar => a.nVars = 1}

InitDVs ==
    /\ ReduceQuiet
    /\ dictOrdered = TRUE
    /\ iterMutationRaises = FALSE
    /\ rank = 0
    /\ \E o \in OptsAfter(2, DvVarArgs) : \E useGroups \in BOOLEAN :
         LET r == FinalizeDesignVariablesOp([o EXCEPT !.useGroups = useGroups],
                                            o.variables, iterMutationRaises)
         IN  /\ o.variables # << >>
             /\ r.err = "none"
             /\ opt = r.o
             /\ peers = [NoPeers EXCEPT !.vars = [p \in OtherRanks |-> r.o.variables],
                                        !.varsDeclared = TRUE]
    /\ lastCall = [op |-> "finalizeDesignVariables", err |-> "none"]
    /\ codec = NoCodec
    /\ asm = NoAsm
    /\ calls = 0

\* The values set for the groups of one variable set from position j on: a
\* group is left out or gets base + 1, base + 2, ... for its variables.
RECURSIVE GroupValuesFrom(_, _, _)
GroupValuesFrom(groups, j, base) ==
    IF j > Len(groups) THEN {<< >>}
    ELSE {m \o rest :
            m \in {<< >>, <<[k |-> groups[j].k,
                            v |-> [n \in 1..Len(groups[j].v) |-> base + n]]>>},
            rest \in GroupValuesFrom(groups, j + 1, base)}

\* The dictionaries handed to setDVs, for the sets from position i on; a
\* key that names no set may come last.
RECURSIVE DvDictsFrom(_, _)
DvDictsFrom(variables, i) ==
    IF i > Len(variables) THEN {<< >>, <<[k |-> UnknownName, v |-> << >>]>>}
    ELSE {m \o rest :
            m \in {<< >>} \cup
                  {<<[k |-> variables[i].k, v |-> gv]>> :
                      gv \in UNION {GroupValuesFrom(variables[i].v, 1, base) : base \in 0..1}},
            rest \in DvDictsFrom(variables, i + 1)}

DvInputs(o) ==
    IF o.useGroups THEN DvDictsFrom(o.variables, 1)
    ELSE {[k \in 1..o.ndvs |-> base + k] : base \in 0..1}

SetDVs ==
    \E inDVs \in DvInputs(opt) :
        /\ CalledWith("setDVs", SetDVsOp(opt, inDVs),
                      [op |-> "setDVs", arg |-> inDVs, flag |-> FALSE,
                       res |-> Matrix(<< >>, << >>)])
        /\ UNCHANGED peers

GetDVs ==
    /\ CalledWith("getDVs", [o |-> opt, err |-> GetDVsOp(opt).err],
                  [op |-> "getDVs", arg |-> << >>, flag |-> FALSE, res |-> GetDVsOp(opt)])
    /\ UNCHANGED peers

NextDVs ==
    \/ SetDVs
    \/ GetDVs

SpecDVs == InitDVs /\ [][NextDVs]_vars

\* ------------------------------------------------------- the wrt argument
\* Registries whose variable sets are named S and s, and addConGroup calls
\* that differ in wrt.
WrtVarArgs ==
    [name : GroupNames, nVars : {1}, type : {"c"}, varSet : {"S", "s"},
     scalar : {FALSE}, bad : {"none"}, value : VarValues, scale : VarScales]

InitWrt ==
    /\ ReduceQuiet
    /\ dictOrdered = TRUE
    /\ iterMutationRaises = FALSE
    /\ rank = 0
    /\ \E o \in OptsAfter(2, WrtVarArgs) :
         LET r == FinalizeDesignVariablesOp(o, o.variables, iterMutationRaises)
         IN  /\ r.err = "none"
             /\ opt = r.o
             /\ peers = [NoPeers EXCEPT !.vars = [p \in OtherRanks |-> r.o.variables],
                                        !.varsDeclared = TRUE]
    /\ lastCall = [op |-> "finalizeDesignVariables", err |-> "none"]
    /\ codec = NoCodec
    /\ asm = NoAsm
    /\ calls = 0

AddConGroupWrt ==
    \E a \in ConArgs("wrt", opt) :
        /\ CalledWith("addConGroup", AddConGroupOp(opt, a),
                      [op |-> "addConGroup", arg |-> a, flag |-> FALSE,
                       res |-> Matrix(<< >>, << >>)])
        /\ UNCHANGED peers

NextWrt == AddConGroupWrt

SpecWrt == InitWrt /\ [][NextWrt]_vars

\* ----------------------------------------------------------- the protocol
ReduceInit ==
    /\ \E ks \in [Procs -> KeyLists] :
         /\ rvars = [p \in Procs |-> LocalDict(p, ks[p])]
         /\ rinit = [p \in Procs |-> LocalDict(p, ks[p])]
    /\ rpc = [p \in Procs |-> "gather"]
    /\ gathered = [p \in Procs |-> NotPosted]
    /\ procKeys = [p \in Procs |-> << >>]
    /\ bc1 = NotPosted
    /\ bc2 = NotPosted
    /\ chan = [p \in Procs |-> << >>]
    /\ idx = [p \in Procs |-> 1]
    /\ sent = << >>
    /\ eager \in BOOLEAN
    /\ dictOrdered \in BOOLEAN
    /\ RegistryIdle

ReduceNext ==
    \/ GatherRoot
    \/ Bcast1Root
    \/ RootRecv
    \/ Bcast2Root
    \/ \E p \in Procs : GatherSend(p)
    \/ \E p \in Procs : Bcast1Recv(p)
    \/ \E p \in Procs : LoopStep(p)
    \/ \E p \in Procs : SendReturns(p)
    \/ \E p \in Procs : LoopEnd(p)
    \/ \E p \in Procs : Bcast2Recv(p)

SpecReduce == ReduceInit /\ [][ReduceNext]_vars
FairSpecReduce == SpecReduce /\ WF_vars(ReduceNext)

AllReturned == \A p \in Procs : rpc[p] = "done"

\* ===================================================================
\* Properties of the consistency protocol
\* ===================================================================
\* The processes that declared a key before the call, and the lowest of them.
Declarers(key) == {p \in Procs : DHas(rinit[p], key)}
LowestDeclarer(key) == CHOOSE p \in Declarers(key) : \A q \in Declarers(key) : p <= q
DeclaredKeys == UNION {DKeySet(rinit[p]) : p \in Procs}

\* C1: once every process has returned from _reduceDict, all of them hold the
\* same collection: the same keys, in the same order, with the same entries.
C1_AllIdentical ==
    \A p, q \in Procs :
        (rpc[p] = "done" /\ rpc[q] = "done") => rvars[p] = rvars[q]

C1_Witness ==
    /\ AllReturned
    /\ \A p, q \in Procs : p # q => rinit[p] # rinit[q]
    /\ Len(rvars[Root]) >= 2

\* C2: the merged key set is the union of the declared keys; the entry under
\* a key is the one of the lowest-ranked process that declared it, so the
\* root keeps its own; every key the root lacks is sent exactly once, by its
\* owner and by no other process, and is stored under the key it was sent for.
C2_OwnerWins ==
    /\ \A i \in 1..Len(sent) :
          /\ sent[i][1] # Root
          /\ sent[i][2] \in DeclaredKeys
          /\ sent[i][1] = LowestDeclarer(sent[i][2])
          /\ \A j \in 1..Len(sent) : i # j => sent[i][2] # sent[j][2]
    /\ \A p \in Procs : rpc[p] = "done" =>
          /\ DKeySet(rvars[p]) = DeclaredKeys
          /\ \A key \in DeclaredKeys :
                DVal(rvars[p], key) = Entry(LowestDeclarer(key), key)
          /\ {sent[i][2] : i \in 1..Len(sent)} = DeclaredKeys \ DKeySet(rinit[Root])

\* The keys rank r declared that no lower rank declared, in r's order.
NewKeys(r) ==
    SelectSeq(DKeys(rinit[r]), LAMBDA key : \A q \in 0..(r - 1) : ~DHas(rinit[q], key))
RECURSIVE KeysFromRank(_)
KeysFromRank(r) == IF r >= NProcs THEN << >> ELSE NewKeys(r) \o KeysFromRank(r + 1)

\* C3: the order of the merged collection is a function of the declarations:
\* rank 0's keys in rank 0's declaration order, then the other keys by owner
\* rank and, within one owner, in that owner's declaration order.
C3_MergedOrder ==
    \A p \in Procs : rpc[p] = "done" => DKeys(rvars[p]) = KeysFromRank(0)

\* What a process returns from the protocol is one of the collections of
\* ReduceDict.
ReduceDictIsTheProtocol ==
    \A p \in Procs : rpc[p] = "done" =>
        rvars[p] \in ReduceDict([i \in 1..NProcs |-> rinit[i - 1]], dictOrdered)

\* C4: when every process of the communicator calls _reduceDict, every
\* process eventually returns from it, also when a send blocks until the
\* root has received it.
C4_EveryoneReturns == <>AllReturned

\* A send that blocks while the root is still receiving from another process.
C4_Witness ==
    /\ ~eager
    /\ rpc[Root] = "p2p"
    /\ \E p, q \in Procs \ {Root} :
          /\ p # q
          /\ rpc[p] = "sending" /\ chan[p] # << >>
          /\ rpc[q] = "sending" /\ chan[q] # << >>

\* ===================================================================
\* Properties of the registry
\* ===================================================================
VariablesFinalized == lastCall.op = "finalizeDesignVariables" /\ lastCall.err = "none"

\* C5: a finalizeDesignVariables that returned closes the gate; from then on
\* the gate stays closed whatever is called, and every addVarSet and
\* addVarGroup (addVar included) raises and leaves the object as it was.
C5_OneWayGate ==
    /\ [](VariablesFinalized => ~opt.ableToAddVariables)
    /\ [][(opt.ndvs # NoneVal) =>
            /\ ~opt'.ableToAddVariables
            /\ opt'.ndvs # NoneVal
            /\ lastCall'.op \in {"addVarSet", "addVarGroup"} =>
                  (lastCall'.err = "NoMoreVariables" /\ opt' = opt)]_vars

C5_Witness ==
    /\ lastCall = [op |-> "addVarGroup", err |-> "NoMoreVariables"]
    /\ opt.ndvs >= 1
    /\ calls >= 3

GroupNameList(variables) ==
    LET gs == AllGroups(variables) IN [i \in 1..Len(gs) |-> gs[i].dvGroup]

\* C7: no two variable groups of the registry share a name, in whatever
\* variable sets they are, and no two constraint groups share a name; an add
\* call that reuses a name raises the Duplicate-Name error.
C7_NamesUnique ==
    /\ Distinct(GroupNameList(opt.variables))
    /\ Distinct(DKeys(opt.constraints))

\* The number of variables of the groups before the i-th one.
RECURSIVE VarsBefore(_, _)
VarsBefore(gs, i) == IF i <= 1 THEN 0 ELSE VarsBefore(gs, i - 1) + gs[i - 1].n

\* C8: after a finalizeDesignVariables that returned, every variable set of
\* the registry has a group; the groups, in collection order, have the
\* contiguous ranges [0, n1), [n1, n1 + n2), ... up to ndvs; and the range of
\* a variable set runs from the start of its first group to the end of its
\* last one.
C8_OffsetsPartition ==
    VariablesFinalized =>
        LET gs == AllGroups(opt.variables)
        IN  /\ \A k \in 1..Len(opt.variables) : Len(opt.variables[k].v) > 0
            /\ opt.ndvs = VarsBefore(gs, Len(gs) + 1)
            /\ \A i \in 1..Len(gs) :
                  LET off == DVal(DVal(opt.dvOffset, gs[i].dvSet), gs[i].dvGroup)
                  IN  /\ off[1] = VarsBefore(gs, i)
                      /\ off[2] = VarsBefore(gs, i) + gs[i].n
            /\ \A i \in 1..Len(gs) :
                  LET set == DVal(DVal(opt.dvOffset, gs[i].dvSet), "n")
                  IN  /\ set[1] <= VarsBefore(gs, i)
                      /\ set[2] >= VarsBefore(gs, i) + gs[i].n
                      /\ (i = 1 \/ gs[i - 1].dvSet # gs[i].dvSet) => set[1] = VarsBefore(gs, i)
                      /\ (i = Len(gs) \/ gs[i + 1].dvSet # gs[i].dvSet) =>
                            set[2] = VarsBefore(gs, i) + gs[i].n

\* The rows of the constraints of one kind before the i-th constraint.
RECURSIVE RowsBefore(_, _, _)
RowsBefore(cons, i, linear) ==
    IF i <= 1 THEN 0
    ELSE RowsBefore(cons, i - 1, linear)
         + (IF cons[i - 1].v.linear = linear THEN cons[i - 1].v.ncon ELSE 0)

\* C9: after finalizeConstraints the nonlinear constraints have, in
\* collection order, the contiguous row ranges that start at 0, the linear
\* constraints, in collection order, the contiguous ranges that start at
\* nnCon, every range is ncon rows wide, and nnCon + nlCon = nCon is the
\* number of rows.
C9_RowsPartition ==
    lastCall.op = "finalizeConstraints" =>
        LET cons == opt.constraints
            n == Len(cons)
        IN  /\ opt.nnCon = RowsBefore(cons, n + 1, FALSE)
            /\ opt.nlCon = RowsBefore(cons, n + 1, TRUE)
            /\ opt.nCon = opt.nnCon + opt.nlCon
            /\ \A i \in 1..n :
                  /\ cons[i].v.re = cons[i].v.rs + cons[i].v.ncon
                  /\ cons[i].v.rs = IF cons[i].v.linear
                                    THEN opt.nnCon + RowsBefore(cons, i, TRUE)
                                    ELSE RowsBefore(cons, i, FALSE)
            /\ \A i, j \in 1..n :
                  (~cons[i].v.linear /\ cons[j].v.linear) => cons[i].v.re <= cons[j].v.rs

C9_Witness ==
    /\ lastCall.op = "finalizeConstraints"
    /\ Len(opt.constraints) = 3
    /\ opt.constraints[1].v.linear
    /\ ~opt.constraints[2].v.linear
    /\ opt.constraints[2].v.ncon = 2
    /\ \E i \in 1..3 : opt.constraints[i].k \notin opt.conGroupNames

\* C10: on a registry whose variables are finalized, deProcessX returns the
\* flat vector processX was given, and processX returns the named form
\* deProcessX was given.
C10_RoundTrip ==
    codec.chained =>
        /\ codec.err = "none"
        /\ codec.op = "deProcessX" => codec.flat = codec.srcFlat
        /\ codec.op = "processX" => codec.named = codec.srcNamed

\* ===================================================================
\* Properties of the Jacobian and constraint-value assembly
\* ===================================================================
JacCall == asm.op = "processConstraintJacobian"
DictCall == JacCall /\ asm.arg.form = "dict"
DenseCall == JacCall /\ asm.arg.form = "dense"
InPartition(i) == opt.constraints[i].v.linear = asm.flag
ConIndices == 1..Len(opt.constraints)
WrtSet(i) == {opt.constraints[i].v.wrt[n] : n \in 1..Len(opt.constraints[i].v.wrt)}

\* The block the submission holds for constraint i and set key, if any.
Submitted(i, key) ==
    /\ DHas(asm.arg.cons, opt.constraints[i].k)
    /\ DHas(DVal(asm.arg.cons, opt.constraints[i].k), key)
SubBlock(i, key) == DVal(DVal(asm.arg.cons, opt.constraints[i].k), key)
Template(i, key) == DVal(opt.constraints[i].v.jac, key)
RightShape(i, key) ==
    Shape(SubBlock(i, key)) = <<opt.constraints[i].v.ncon, SetWidth(opt, key)>>
NnzDiffers(i, key) == Nnz(ToCsr(SubBlock(i, key))) # Nnz(Template(i, key))

\* The submission has what the assembly asks of it for constraint i, apart
\* from the block of set `but`: an entry, every block when the constraint
\* has an explicit template, and blocks of the template's shape and
\* nonzero count.
Complete(i, but) ==
    /\ DHas(asm.arg.cons, opt.constraints[i].k)
    /\ \A key \in WrtSet(i) \ {but} :
          /\ ~opt.constraints[i].v.partialReturnOk => Submitted(i, key)
          /\ Submitted(i, key) => (RightShape(i, key) /\ ~NnzDiffers(i, key))

SamePositions(m, t) ==
    /\ Nnz(m) = Nnz(t)
    /\ \A k \in 1..Nnz(t) : m.ents[k].i = t.ents[k].i /\ m.ents[k].j = t.ents[k].j

\* C12: when a dictionary submission is accepted, every block it holds for a
\* constraint of the assembled partition has the nonzero count and the
\* nonzero positions of the template addConGroup stored.
C12_AcceptedBlocksMatchTemplate ==
    (DictCall /\ asm.res.err = "none") =>
        \A i \in ConIndices : \A key \in WrtSet(i) :
            (InPartition(i) /\ Submitted(i, key)) =>
                SamePositions(ToCsr(SubBlock(i, key)), Template(i, key))

ConstraintsFinalized == opt.nCon # NoneVal
\* Some constraint's wrt leaves out a registered variable set.
SomeWrtRestricted == \E i \in ConIndices : WrtSet(i) # DKeySet(opt.variables)
PartitionShape == <<IF asm.flag THEN opt.nlCon ELSE opt.nnCon, opt.ndvs>>

\* C13: once the constraints are finalized, denseJacobianOK is false exactly
\* when some constraint's wrt does not contain every registered variable
\* set; a full array of the partition's shape is then rejected as a
\* forbidden dense return, and it is accepted when every wrt covers all sets.
C13_DenseReturnLegality ==
    /\ ConstraintsFinalized => (opt.denseJacobianOK <=> ~SomeWrtRestricted)
    /\ (DenseCall /\ opt.nCon # 0 /\ Shape(DenseBlock(asm.arg.rows)) = PartitionShape) =>
          IF SomeWrtRestricted THEN asm.res.err = "DenseReturnForbidden"
                               ELSE asm.res.err = "none"

\* The dictionary submission that holds the values of the full array `rows`
\* block by block: for every constraint of the partition and every set of
\* its wrt, the rows of the constraint and the columns of the set.
FirstRow(i) == opt.constraints[i].v.rs - (IF asm.flag THEN opt.nnCon ELSE 0)
BlockOf(rows, i, key) ==
    DenseBlock([r \in 1..opt.constraints[i].v.ncon |->
                   [c \in 1..SetWidth(opt, key) |->
                       rows[FirstRow(i) + r][DvStart(opt, key) + c]]])
DictOfDense(rows) ==
    LET part == SelectSeq([i \in 1..Len(opt.constraints) |-> i], LAMBDA i : InPartition(i))
    IN  DictForm([n \in 1..Len(part) |->
                     [k |-> opt.constraints[part[n]].k,
                      v |-> [m \in 1..Len(opt.constraints[part[n]].v.wrt) |->
                               [k |-> opt.constraints[part[n]].v.wrt[m],
                                v |-> BlockOf(rows, part[n], opt.constraints[part[n]].v.wrt[m])]]]])
EntrySet(ents) == {ents[k] : k \in 1..Len(ents)}

\* C14: whenever a full array is accepted, the dictionary submission of the
\* same values is accepted too and both assemble to the same entries
\* (row, column, value).
C14_DenseEqualsDictionary ==
    (DenseCall /\ opt.nCon # 0 /\ asm.res.err = "none") =>
        LET viaDict == ProcessConstraintJacobianOp(opt, DictOfDense(asm.arg.rows), asm.flag)
        IN  /\ viaDict.err = "none"
            /\ Len(viaDict.ents) = Len(asm.res.ents)
            /\ EntrySet(viaDict.ents) = EntrySet(asm.res.ents)

\* Where the claim puts the stored entry e of the block of constraint i and
\* set key, and with which value.
Placed(i, key, e) ==
    [row |-> FirstRow(i) + e.i,
     col |-> DvStart(opt, key) + e.j,
     v |-> Over(Times(e.v, opt.constraints[i].v.scale[e.i + 1]),
                opt.xscale[DvStart(opt, key) + e.j + 1])]
\* The block the assembly works on: the submitted one or, for an omitted
\* one, the stored placeholder.
Assembled(i, key) ==
    IF Submitted(i, key) THEN ToCsr(SubBlock(i, key)) ELSE Template(i, key)
PlacedEntries ==
    {Placed(p[1], p[2], Assembled(p[1], p[2]).ents[p[3]]) :
        p \in {q \in ConIndices \X DKeySet(opt.variables) \X (1..MaxCells) :
                  /\ InPartition(q[1])
                  /\ q[2] \in WrtSet(q[1])
                  /\ q[3] <= Nnz(Assembled(q[1], q[2]))}}

\* C15: in an accepted dictionary submission every stored entry (i, j) of a
\* block of constraint c and set s comes out at row c.rs + i of the
\* partition and column offset(s) + j with the value
\* block[i][j] * scale_c[i] / xscale[offset(s) + j], and the matrix holds
\* nothing else.
C15_EntriesPlaced ==
    (DictCall /\ opt.nCon # 0 /\ asm.res.err = "none") =>
        EntrySet(asm.res.ents) = PlacedEntries

NlcCall == asm.op = "processNonlinearConstraints"
Nonlinear == {i \in ConIndices : ~opt.constraints[i].v.linear}
ValueMissing == \E i \in Nonlinear : ~DHas(asm.arg, opt.constraints[i].k)
WrongLength ==
    \E i \in Nonlinear :
        /\ DHas(asm.arg, opt.constraints[i].k)
        /\ Len(DVal(asm.arg, opt.constraints[i].k)) # opt.constraints[i].v.ncon
\* What the claim says of a call of processNonlinearConstraints.
NlcContract ==
    IF ValueMissing \/ WrongLength THEN asm.res.err # "none"
    ELSE /\ asm.res.err = "none"
         /\ Len(asm.res.ents) = opt.nnCon
         /\ \A i \in Nonlinear : \A r \in 1..opt.constraints[i].v.ncon :
               asm.res.ents[opt.constraints[i].v.rs + r] =
                   Times(Num(DVal(asm.arg, opt.constraints[i].k)[r]),
                         IF asm.flag THEN opt.constraints[i].v.scale[r] ELSE 1)

\* C16 as stated: processNonlinearConstraints fails if the value of a
\* nonlinear constraint is missing or has a wrong length, and otherwise
\* returns a vector of length nnCon that holds each constraint's values in
\* its rows [rs, re), times the row's scale unless scaled is false; keys
\* that name no nonlinear constraint change nothing.
C16_ValuesAssembled == NlcCall => NlcContract

\* C16, amended: the same on a problem that is not marked dummyConstraint;
\* on a marked one the call returns the vector [0] whatever it is given.
C16_ValuesAssembledUnlessDummy ==
    NlcCall => IF opt.dummyConstraint
               THEN asm.res.err = "none" /\ asm.res.ents = <<Num(0)>>
               ELSE NlcContract

C16_Witness ==
    /\ NlcCall /\ ~opt.dummyConstraint /\ asm.res.err = "none" /\ asm.flag
    /\ Cardinality(Nonlinear) = 2
    /\ \E i \in Nonlinear : opt.constraints[i].v.scale[1] # 1 /\ opt.constraints[i].v.rs # 0
    /\ DHas(asm.arg, UnknownName)

\* The coefficient declared for the k-th stored entry of a template: the
\* stored value with the row scale of lines 673-676 taken out again.
Coefficient(i, key, k) ==
    Over(Template(i, key).ents[k].v,
         opt.constraints[i].v.scale[Template(i, key).ents[k].i + 1])
LinearEntries ==
    {[row |-> opt.constraints[p[1]].v.rs - opt.nnCon + Template(p[1], p[2]).ents[p[3]].i,
      col |-> DvStart(opt, p[2]) + Template(p[1], p[2]).ents[p[3]].j,
      v |-> Over(Times(Coefficient(p[1], p[2], p[3]),
                       opt.constraints[p[1]].v.scale[Template(p[1], p[2]).ents[p[3]].i + 1]),
                 opt.xscale[DvStart(opt, p[2]) + Template(p[1], p[2]).ents[p[3]].j + 1])] :
        p \in {q \in ConIndices \X DKeySet(opt.variables) \X (1..MaxCells) :
                  /\ opt.constraints[q[1]].v.linear
                  /\ q[2] \in WrtSet(q[1])
                  /\ q[3] <= Nnz(Template(q[1], q[2]))}}

\* C17: the linear Jacobian finalizeConstraints caches holds, for every
\* declared coefficient, the entry coefficient * scale[row] / xscale[col]:
\* every column divided by the variable scale and every row multiplied by
\* the constraint scale exactly once.
C17_LinearJacobianScaledOnce ==
    (ConstraintsFinalized /\ opt.nlCon > 0) =>
        /\ opt.linearJacobian.err = "none"
        /\ EntrySet(opt.linearJacobian.ents) = LinearEntries

PartitionEmpty == IF asm.flag THEN opt.nlCon = 0 ELSE opt.nnCon = 0

\* C18: when the partition being assembled has no constraints,
\* processConstraintJacobian returns the 1 x ndvs matrix of sentinels on a
\* problem marked dummyConstraint and an empty matrix otherwise, whatever
\* the submission is.
C18_EmptyPartition ==
    (JacCall /\ PartitionEmpty) =>
        IF opt.dummyConstraint THEN asm.res = DummyJacobian(opt)
        ELSE asm.res.err = "none" /\ asm.res.ents = << >>

\* The rows and columns at which a matrix stores an entry.
Positions(ents) == {<<ents[k].row, ents[k].col>> : k \in 1..Len(ents)}
\* The submission with the block b added for constraint i and set key.
WithBlock(i, key, b) ==
    [asm.arg EXCEPT !.cons =
        [n \in 1..Len(asm.arg.cons) |->
            IF asm.arg.cons[n].k = opt.constraints[i].k
            THEN [asm.arg.cons[n] EXCEPT !.v = @ \o <<[k |-> key, v |-> b]>>]
            ELSE asm.arg.cons[n]]]
HasEntry(i) == DHas(asm.arg.cons, opt.constraints[i].k)
OthersComplete(i, key) ==
    \A j \in ConIndices : InPartition(j) => Complete(j, IF j = i THEN key ELSE NoneName)

\* C20: when a dictionary submission has no block for a set of wrt of a
\* constraint of the assembled partition, the call fails if the constraint
\* was declared with an explicit Jacobian; if it was declared without one
\* and nothing else in the submission is at fault, the call succeeds, the
\* matrix holds an entry of value zero at every cell of the constraint's
\* rows and the set's columns, and it has the positions it has when a full
\* block is supplied for that set.
C20_OmittedBlock ==
    DictCall =>
        \A i \in ConIndices : \A key \in WrtSet(i) :
            (InPartition(i) /\ HasEntry(i) /\ ~Submitted(i, key)) =>
                /\ ~opt.constraints[i].v.partialReturnOk =>
                      /\ asm.res.err # "none"
                      /\ OthersComplete(i, key) => asm.res.err = "MissingValue"
                /\ (opt.constraints[i].v.partialReturnOk /\ OthersComplete(i, key)) =>
                      /\ asm.res.err = "none"
                      /\ Template(i, key) =
                            Placeholder(opt.constraints[i].v.ncon, SetWidth(opt, key))
                      /\ \A c \in 1..Nnz(Template(i, key)) :
                            \E k \in 1..Len(asm.res.ents) :
                                asm.res.ents[k] =
                                    [row |-> FirstRow(i) + Template(i, key).ents[c].i,
                                     col |-> DvStart(opt, key) + Template(i, key).ents[c].j,
                                     v |-> Num(0)]
                      /\ LET b == Ones(opt.constraints[i].v.ncon, SetWidth(opt, key))
                             full == ProcessConstraintJacobianOp(opt, WithBlock(i, key, b), asm.flag)
                         IN  /\ full.err = "none"
                             /\ Positions(full.ents) = Positions(asm.res.ents)

\* An accepted submission that omits one block of a constraint and brings
\* another.
C20_Witness ==
    /\ DictCall
    /\ asm.res.err = "none"
    /\ \E i \in ConIndices : \E key, other \in WrtSet(i) :
          /\ InPartition(i) /\ HasEntry(i)
          /\ opt.constraints[i].v.partialReturnOk
          /\ ~Submitted(i, key)
          /\ Submitted(i, other)
          /\ Nnz(Template(i, key)) > 0

\* ===================================================================
\* Properties of the wrt argument of addConGroup
\* ===================================================================
WrtCall == asm.op = "addConGroup" /\ lastCall.err # "DuplicateName"
\* The names a wrt argument gives: the string, or the entries of the list
\* that are not None.
NamesGiven(w) == {w.names[n] : n \in 1..Len(w.names)} \ {NoneName}
\* The offset a variable set starts at: the variables of the sets before it.
RECURSIVE StartOf(_, _)
StartOf(variables, dvSet) ==
    IF variables[1].k = dvSet THEN 0
    ELSE SetSize(variables[1].v, 1) + StartOf(Tail(variables), dvSet)
StoredWrt == DVal(opt.constraints, asm.arg.name).wrt

\* C19: addConGroup without wrt stores every registered variable set; with
\* wrt, a single name or a list, it succeeds exactly when every name given
\* is a registered variable set, and then stores the names given; the
\* stored wrt is in ascending order of the sets' start offsets, whatever
\* the order of the argument.
C19_WrtValidatedAndSorted ==
    WrtCall =>
        /\ ~asm.arg.wrt.given =>
              /\ lastCall.err = "none"
              /\ {StoredWrt[n] : n \in 1..Len(StoredWrt)} = DKeySet(opt.variables)
        /\ asm.arg.wrt.given =>
              /\ lastCall.err = "none" <=> NamesGiven(asm.arg.wrt) \subseteq DKeySet(opt.variables)
              /\ lastCall.err = "none" =>
                    {StoredWrt[n] : n \in 1..Len(StoredWrt)} = NamesGiven(asm.arg.wrt)
        /\ lastCall.err = "none" =>
              \A m, n \in 1..Len(StoredWrt) :
                  m < n => StartOf(opt.variables, StoredWrt[m]) <= StartOf(opt.variables, StoredWrt[n])

\* ===================================================================
\* Properties of the objective gradient
\* ===================================================================
GradCall == asm.op = "processObjectiveGradient" /\ DHas(opt.objectives, "f")
VarScale == XScale(opt.variables, 1, 1)
\* The position in self.variables of the set variable k (from 1) belongs to.
SetOfVar(k) ==
    CHOOSE i \in 1..Len(opt.variables) :
        /\ StartOf(opt.variables, opt.variables[i].k) < k
        /\ k <= StartOf(opt.variables, opt.variables[i].k) + SetSize(opt.variables[i].v, 1)
ListedSets == {i \in 1..Len(opt.variables) : DHas(asm.arg.cons, opt.variables[i].k)}
\* The gradient the caller gave for variable k: the entry of the array, or
\* zero for a variable of a set the dictionary does not list.
GivenGradient(k) ==
    IF asm.arg.form = "dense" THEN Num(asm.arg.rows[k])
    ELSE IF SetOfVar(k) \in ListedSets
    THEN Num(DVal(asm.arg.cons, opt.variables[SetOfVar(k)].k)
                 [k - StartOf(opt.variables, opt.variables[SetOfVar(k)].k)])
    ELSE Num(0)
GradientWellFormed ==
    IF asm.arg.form = "dense" THEN Len(asm.arg.rows) = Len(VarScale)
    ELSE \A i \in ListedSets :
            Len(DVal(asm.arg.cons, opt.variables[i].k)) = SetSize(opt.variables[i].v, 1)

\* C21: processObjectiveGradient fails on a full array whose length is not
\* ndvs and on a dictionary that brings, for a variable set, an array whose
\* length is not the width of the set, and on nothing else (a key that
\* names no set is ignored); the result holds, for every variable, the
\* gradient given for it (zero for a set the dictionary leaves out) divided
\* by the variable's scale and multiplied by the scale of the objective.
C21_GradientAssembled ==
    GradCall =>
        /\ asm.res.err = "none" <=> GradientWellFormed
        /\ asm.res.err = "none" =>
              asm.res.ents =
                  [k \in 1..Len(VarScale) |->
                      Times(Over(GivenGradient(k), VarScale[k]),
                            DVal(opt.objectives, "f").scale)]

\* ===================================================================
\* Properties of deletion and of the reserved names
\* ===================================================================
\* C22: once finalizeDesignVariables has returned, a delVar or delVarSet
\* call removes no variable group and no variable set, so the registry
\* keeps the groups the offset table was built from and ndvs stays the
\* number of registered variables.
C22_NoDeletionAfterFinalization ==
    [][(opt.ndvs # NoneVal /\ lastCall'.op \in {"delVar", "delVarSet"}) =>
          /\ opt'.variables = opt.variables
          /\ Len(XScale(opt'.variables, 1, 1)) = opt'.ndvs]_vars

\* ===================================================================
\* Properties of the scalar-or-array arguments
\* ===================================================================
ArgCall == asm.op \in {"addVarGroup", "addConGroup"}
\* What is used for entry k when the argument is not passed.
DefaultEntry(name) ==
    CASE name = "lower" -> Infinite(-1)
      [] name = "upper" -> Infinite(1)
      [] name = "value" -> Finite(0)
      [] name = "scale" -> Finite(1)

\* C23: an argument of addVarGroup (value, lower, upper, scale) or
\* addConGroup (lower, upper, scale) that is a single value is used for all
\* count entries; an array of exactly count values is used entry by entry;
\* an array of any other length makes the call fail with the shape
\* mismatch; a bound that is not passed is -1e20 (lower) or 1e20 (upper) at
\* every entry.
C23_ScalarOrArray ==
    ArgCall =>
        LET x == asm.arg.x
            n == asm.arg.count
        IN  /\ ~x.given =>
                  /\ asm.res.err = "none"
                  /\ asm.res.ents = [k \in 1..n |-> DefaultEntry(asm.arg.name)]
            /\ (x.given /\ ~x.array) =>
                  /\ asm.res.err = "none"
                  /\ asm.res.ents = [k \in 1..n |-> Finite(x.v[1])]
            /\ (x.array /\ Len(x.v) = n) =>
                  /\ asm.res.err = "none"
                  /\ asm.res.ents = [k \in 1..n |-> Finite(x.v[k])]
            /\ (x.array /\ Len(x.v) # n) => asm.res.err = "ShapeMismatch"

\* ===================================================================
\* Properties of the sparsity pattern
\* ===================================================================
\* The positions the templates of constraint i reserve for the set key, in
\* the order of their stored entries.
TemplatePositions(i, key) ==
    [c \in 1..Nnz(Template(i, key)) |->
        <<FirstRow(i) + Template(i, key).ents[c].i,
          DvStart(opt, key) + Template(i, key).ents[c].j>>]
RECURSIVE WrtPositions(_, _)
WrtPositions(i, n) ==
    IF n > Len(opt.constraints[i].v.wrt) THEN << >>
    ELSE TemplatePositions(i, opt.constraints[i].v.wrt[n]) \o WrtPositions(i, n + 1)
RECURSIVE ReservedPositions(_)
ReservedPositions(i) ==
    IF i > Len(opt.constraints) THEN << >>
    ELSE (IF InPartition(i) THEN WrtPositions(i, 1) ELSE << >>) \o ReservedPositions(i + 1)
PositionSeq(ents) == [k \in 1..Len(ents) |-> <<ents[k].row, ents[k].col>>]

\* C25: on a finalized problem every successful dictionary call of
\* processConstraintJacobian for a partition returns the same sequence of
\* (row, column) positions, the ones the stored templates reserve, whatever
\* values were submitted and whether a block came dense, sparse or not at
\* all; on a problem without constraints the result does not depend on the
\* submission at all.
C25_PatternFixed ==
    (DictCall /\ asm.res.err = "none") =>
        IF opt.nCon = 0
        THEN asm.res = (IF opt.dummyConstraint THEN DummyJacobian(opt) ELSE EmptyArray)
        ELSE PositionSeq(asm.res.ents) = ReservedPositions(1)

\* An accepted submission that brings a dense block with a zero for one set
\* and a sparse block or no block for another.
C25_Witness ==
    /\ DictCall
    /\ asm.res.err = "none"
    /\ \E i \in ConIndices : \E key, other \in WrtSet(i) :
          /\ InPartition(i)
          /\ Submitted(i, key)
          /\ ~SubBlock(i, key).sparse
          /\ \E r \in 1..Len(SubBlock(i, key).rows) :
                \E c \in 1..Len(SubBlock(i, key).rows[r]) : SubBlock(i, key).rows[r][c] = 0
          /\ other # key
          /\ Submitted(i, other) => SubBlock(i, other).sparse

\* ===================================================================
\* Properties of the merged registry
\* ===================================================================
GroupNamesOf(variables) ==
    {GroupNameList(variables)[i] : i \in 1..Len(GroupNameList(variables))}

\* C26: a finalizeDesignVariables that returns leaves in the registry of
\* this process every variable group the process had declared (and, the
\* processes running the same code on the same merged collection, every
\* group any process declared), also when another process declared other
\* groups in a variable set of the same name.
C26_NoGroupLost ==
    [][(lastCall'.op = "finalizeDesignVariables" /\ lastCall'.err = "none") =>
          GroupNamesOf(opt.variables) \subseteq GroupNamesOf(opt'.variables)]_vars

\* ===================================================================
\* Properties of getDVs and setDVs
\* ===================================================================
\* The values of all variables, in collection order: the entry at a
\* group's start offset + k is the value of the group's k-th variable.
RECURSIVE FlatValues(_, _, _)
FlatValues(variables, i, j) ==
    IF i > Len(variables) THEN << >>
    ELSE IF j > Len(variables[i].v) THEN FlatValues(variables, i + 1, 1)
    ELSE [k \in 1..Len(variables[i].v[j].v) |-> variables[i].v[j].v[k].value]
         \o FlatValues(variables, i, j + 1)
\* What setDVs(d) with useGroups is to leave in the registry: d's arrays for
\* the groups d holds, the old values elsewhere.
ValuesAfter(variables, d) ==
    [i \in 1..Len(variables) |->
        [k |-> variables[i].k,
         v |-> [j \in 1..Len(variables[i].v) |->
                   [k |-> variables[i].v[j].k,
                    v |-> IF /\ DHas(d, variables[i].k)
                             /\ DHas(DVal(d, variables[i].k), variables[i].v[j].k)
                          THEN DVal(DVal(d, variables[i].k), variables[i].v[j].k)
                          ELSE [n \in 1..Len(variables[i].v[j].v) |->
                                   variables[i].v[j].v[n].value]]]]]

\* C27: on a finalized registry a setDVs call returns and, with useGroups,
\* gives every variable of every group its dictionary holds the matching
\* entry and leaves the others as they were; without useGroups it gives the
\* variables, in offset order, the entries of the vector.  A getDVs call
\* returns and yields the values the registry holds, as the dictionary of
\* the groups' arrays or as the flat vector in offset order; so a getDVs
\* after a setDVs returns what was set.
C27_SetGetConsistent ==
    /\ [][lastCall'.op = "setDVs" =>
            /\ lastCall'.err = "none"
            /\ opt.useGroups =>
                  GroupedValues(opt'.variables) = ValuesAfter(opt.variables, asm'.arg)
            /\ ~opt.useGroups => FlatValues(opt'.variables, 1, 1) = asm'.arg]_vars
    /\ [](asm.op = "getDVs" =>
            /\ asm.res.err = "none"
            /\ opt.useGroups => asm.res.ents = GroupedValues(opt.variables)
            /\ ~opt.useGroups => asm.res.ents = FlatValues(opt.variables, 1, 1))

\* ===================================================================
\* Properties of failed and repeated declarations
\* ===================================================================
ArgumentErrors == {"BadType", "ShapeMismatch", "UnknownVarSet", "LinearNeedsJac"}

\* C28: an addVarGroup or addConGroup call that fails on its arguments (an
\* invalid type, a value, bound or scale of the wrong length, a wrt name
\* that is no variable set, a Jacobian block of the wrong shape, a linear
\* constraint without jac) leaves the object as it was before the call,
\* reserved names and variable sets included.
C28_FailedCallChangesNothing ==
    [][(lastCall'.op \in {"addVarGroup", "addConGroup"} /\ lastCall'.err \in ArgumentErrors)
          => opt' = opt]_vars

\* The reserved names agree with the registry: varGroupNames holds the
\* names of the groups present and varSetNames those of the sets present.
NamesMatch(o) ==
    /\ o.varGroupNames = GroupNamesOf(o.variables)
    /\ o.varSetNames = DKeySet(o.variables)

\* C29: before finalization a delVar or delVarSet call removes the named
\* entry and releases its name: made on a registry whose reserved names
\* are the names of the groups and sets present, it leaves the named group
\* or set absent and the reserved names equal to the names still present,
\* so that the name can be declared again.
C29_DeletionReleasesNames ==
    [][(/\ opt.ableToAddVariables
        /\ NamesMatch(opt)
        /\ lastCall'.op \in {"delVar", "delVarSet"}
        /\ calls' # calls) => NamesMatch(opt')]_vars

\* ===================================================================
\* Properties of the caller's data
\* ===================================================================
\* C30: assembly leaves the caller's data unchanged: after a
\* processConstraintJacobian call, in the full-array form and in the
\* dictionary form, with dense and with sparse blocks, the argument holds
\* what it held before the call (sentinel replacement and scaling are
\* applied to copies only), and the call leaves the templates stored in
\* the constraints as they were.
C30_CallerDataUnchanged ==
    /\ [](JacCall => asm.after = CallerData(asm.arg, {}))
    /\ [][asm'.op = "processConstraintJacobian" => opt'.constraints = opt.constraints]_vars
====
